---------------------------- MODULE Spec2Model ----------------------------
(***************************************************************************)
(* Model of modelo-720: the fixed-width Modelo 720 declaration codec       *)
(* (src/src/modelo.rs), the asset abstraction (src/src/assets.rs) and the  *)
(* portfolio reconciliation (src/src/main.rs: FullJoinIterator and         *)
(* compute_modelo720).                                                     *)
(*                                                                         *)
(* Text is modelled as sequences of one-character strings.  Option<T> is   *)
(* modelled as a sequence of length 0 (None) or 1 (Some).  A rust_decimal  *)
(* Decimal is a record [neg, m, e]: sign flag, magnitude of the mantissa   *)
(* and scale (number of fractional digits), as in the library.             *)
(***************************************************************************)
EXTENDS Integers, Sequences, FiniteSets, TLC

---------------------------------------------------------------------------
(* Bounds of the model *)

\* number of distinct asset identifiers
MaxIsin == 3
\* most assets handed to the join, both sides together
MaxAssets == 4
\* longest portfolio handed to the reconciliation
MaxPortfolio == 2
\* fractional digits kept by a non-terminating Decimal division
\* (rust_decimal keeps 28; the quotient is rounded at that digit)
DivScale == 3
\* longest list of details handed to Modelo720::new
MaxDetails == 2
\* most details of a concatenated declaration
MaxEntries == 3
\* largest record count of the header of a concatenated declaration
MaxRegistros == 5
\* largest mantissa and scale of an amount handed to Modelo720Number
MaxMantissa == 20
MaxScale == 3

\* the longest text handed to the visitor of Modelo720Number
MaxText == 3

\* the calls of next made after it has returned None
MaxCalls == 2

---------------------------------------------------------------------------
(* Option *)

None == <<>>

Some(x) == <<x>>

is_some(o) == Len(o) = 1

unwrap(o) == o[1]

---------------------------------------------------------------------------
(* rust_decimal::Decimal *)

RECURSIVE Pow10(_)
Pow10(n) == IF n = 0 THEN 1 ELSE 10 * Pow10(n - 1)

Max(a, b) == IF a >= b THEN a ELSE b

Abs(i) == IF i < 0 THEN -i ELSE i

\* Decimal::new(num, scale)
Decimal_new(num, scale) == [neg |-> num < 0, m |-> Abs(num), e |-> scale]

Decimal_ZERO == [neg |-> FALSE, m |-> 0, e |-> 0]

\* the signed mantissa of d written with s >= d.e fractional digits
Scaled(d, s) == (IF d.neg THEN -d.m ELSE d.m) * Pow10(s - d.e)

\* numeric comparison: -1, 0, 1 as Ordering::Less, Equal, Greater
Decimal_cmp(a, b) ==
    LET s == Max(a.e, b.e)
        x == Scaled(a, s)
        y == Scaled(b, s)
    IN  IF x < y THEN -1 ELSE IF x = y THEN 0 ELSE 1

Decimal_eq(a, b) == Decimal_cmp(a, b) = 0

Decimal_is_zero(d) == d.m = 0

Decimal_is_sign_negative(d) == d.neg

Decimal_abs(d) == [d EXCEPT !.neg = FALSE]

Decimal_neg(d) == [d EXCEPT !.neg = ~d.neg]

\* a + b and a - b: the operands are rescaled to the larger scale
Decimal_add(a, b) ==
    LET s == Max(a.e, b.e)
        r == Scaled(a, s) + Scaled(b, s)
    IN  [neg |-> r < 0, m |-> Abs(r), e |-> s]

Decimal_sub(a, b) ==
    LET s == Max(a.e, b.e)
        r == Scaled(a, s) - Scaled(b, s)
    IN  [neg |-> r < 0, m |-> Abs(r), e |-> s]

\* a * b: mantissas multiply, scales add
Decimal_mul(a, b) ==
    [neg |-> (a.neg # b.neg) /\ a.m * b.m # 0, m |-> a.m * b.m, e |-> a.e + b.e]

\* a / b for b # 0 (the caller sees a panic when b is zero): the exact
\* quotient when it terminates within DivScale fractional digits, otherwise
\* the quotient rounded at the last kept digit
Decimal_div(a, b) ==
    LET num == a.m * Pow10(b.e)
        den == b.m * Pow10(a.e)
        exact == {s \in 0..DivScale : (num * Pow10(s)) % den = 0}
        s == IF exact = {} THEN DivScale
             ELSE CHOOSE x \in exact : \A y \in exact : x <= y
        q == (2 * num * Pow10(s) + den) \div (2 * den)
    IN  [neg |-> (a.neg # b.neg) /\ q # 0, m |-> q, e |-> s]

\* round_dp_with_strategy(dp, RoundingStrategy::MidpointAwayFromZero): a zero
\* comes back as a zero of dp fractional digits with its sign flag, a value
\* with no more than dp fractional digits comes back as it is, and any other
\* is rebuilt from the rounded mantissa by Decimal::from_parts, which gives a
\* zero mantissa no negative sign
round_dp_MidpointAwayFromZero(d, dp) ==
    IF Decimal_is_zero(d) THEN [neg |-> d.neg, m |-> 0, e |-> dp]
    ELSE IF d.e <= dp THEN d
    ELSE LET f == Pow10(d.e - dp)
             r == (2 * d.m + f) \div (2 * f)
         IN  [neg |-> d.neg /\ r # 0, m |-> r, e |-> dp]

\* to_i64: the integral part, fraction dropped (Some for every value here)
Decimal_to_i64(d) ==
    LET t == d.m \div Pow10(d.e) IN Some(IF d.neg THEN -t ELSE t)

---------------------------------------------------------------------------
(* Text *)

LOWER == <<"a", "b", "c", "e", "f", "i", "m", "n", "o", "s", "t">>

UPPER == <<"A", "B", "C", "E", "F", "I", "M", "N", "O", "S", "T">>

\* char::to_uppercase on the characters used here
char_to_uppercase(c) ==
    IF \E i \in 1..Len(LOWER) : LOWER[i] = c
    THEN UPPER[CHOOSE i \in 1..Len(LOWER) : LOWER[i] = c]
    ELSE c

\* str::to_uppercase
to_uppercase(s) == [i \in 1..Len(s) |-> char_to_uppercase(s[i])]

\* The asset identifiers, in ascending string order: identifier i is the
\* text IsinText(i), and comparing identifiers compares their indices.
IsinLetters == <<"D", "E", "F", "G", "L", "U">>

IsinText(i) == <<IsinLetters[i], IsinLetters[i], "0", "0", "0">>

---------------------------------------------------------------------------
(* Portfolio: lists of assets sorted by identifier *)

\* [T]::sort_by(|a, b| a.isin().partial_cmp(b.isin()).unwrap()): a stable
\* sort; the asset is put after the assets that do not compare greater
sort_insert(sorted, a) ==
    LET k == Cardinality({i \in 1..Len(sorted) : sorted[i].isin <= a.isin})
    IN  SubSeq(sorted, 1, k) \o <<a>> \o SubSeq(sorted, k + 1, Len(sorted))

RECURSIVE sort_by_isin(_)
sort_by_isin(assets) ==
    IF assets = <<>> THEN <<>>
    ELSE sort_insert(sort_by_isin(SubSeq(assets, 1, Len(assets) - 1)),
                     assets[Len(assets)])

\* Portfolio::from_assets
Portfolio_from_assets(assets) == sort_by_isin(assets)

\* a plausible slip: an asset of other whose identifier self already holds
\* is left out
Portfolio_merge_deduplicated(self, other) ==
    sort_by_isin(self \o SelectSeq(other,
        LAMBDA a : \A i \in 1..Len(self) : self[i].isin # a.isin))

\* Portfolio::merge
Portfolio_merge(self, other) == sort_by_isin(self \o other)

---------------------------------------------------------------------------
(* Inputs of a run: the declarant (fiscal year, NIF, name, phone) *)

Declarant ==
    [ejercicio |-> 2023,
     nif       |-> <<"1", "2", "3", "4", "5", "6", "7", "8", "Z">>,
     name      |-> <<"A", "N", "A">>,
     phone     |-> 600000000]

---------------------------------------------------------------------------
(* main.rs: the detail record of the reconciliation *)

\* Registro2Modelo720::new of main.rs
main_Registro2Modelo720_new(ejercicio, nif, nombre, codigo_pais) ==
    [tipo |-> 2,
     modelo_declaracion |-> 720,
     ejercicio |-> ejercicio,
     nif_declarante |-> nif,
     nif_declarado |-> nif,
     nif_representante_legal |-> None,
     nombre |-> nombre,
     clave_condicion_declarante |-> 1,
     tipo_titularidad |-> None,
     clave_tipo_bien |-> None,
     subclave_tipo_bien |-> None,
     tipo_derecho_real_sobre_inmueble |-> None,
     codigo_pais |-> codigo_pais,
     clave_identificacion |-> None,
     identificacion_valores |-> None,
     clave_identificacion_cuenta |-> None,
     codigo_bic |-> None,
     codigo_cuenta |-> None,
     identificacion_entidad |-> None,
     nif_pais_residencia_fiscal |-> None,
     nombre_via_publica_entidad |-> None,
     complemento_entidad |-> None,
     poblacion_entidad |-> None,
     provincia_entidad |-> None,
     codigo_postal_entidad |-> None,
     codigo_pais_entidad |-> None,
     fecha_incorporacion |-> None,
     origen_bien_derecho |-> None,
     fecha_extincion |-> None,
     valoracion_1_negativa |-> " ",
     valoracion1 |-> None,
     valoracion_2_negativa |-> " ",
     valoracion2 |-> None,
     clave_representacion_valores |-> None,
     numero_valores |-> None,
     clave_tipo_bien_inmueble |-> None,
     porcentaje |-> 10000,
     blancos |-> <<>>]

\* Registro1Modelo720::new of main.rs; id_declaracion (7200000000000) is
\* held as its decimal digits
main_Registro1Modelo720_new(ejercicio, nif, nombre, telefono) ==
    [tipo |-> 1,
     modelo_declaracion |-> 720,
     ejercicio |-> ejercicio,
     nif_declarante |-> nif,
     nombre |-> nombre,
     tipo_soporte |-> "T",
     telefono |-> telefono,
     nombre_persona_contacto |-> nombre,
     id_declaracion |-> <<"7", "2", "0", "0", "0", "0", "0", "0", "0", "0", "0", "0", "0">>,
     declaracion_complementaria |-> None,
     declaracion_sustitutiva |-> None,
     id_declaracion_anterior |-> None,
     numero_registros_tipo2 |-> 0,
     valoracion_1_negativa |-> " ",
     suma_valoracion1 |-> 0,
     valoracion_2_negativa |-> " ",
     suma_valoracion2 |-> 0,
     blancos |-> <<>>]

\* Option::unwrap_or_default on Option<i64>
unwrap_or_default(o) == IF is_some(o) THEN unwrap(o) ELSE 0

RECURSIVE main_sum_valoracion1(_)
main_sum_valoracion1(entries) ==
    IF entries = <<>> THEN 0
    ELSE unwrap_or_default(Head(entries).valoracion1) + main_sum_valoracion1(Tail(entries))

RECURSIVE main_sum_valoracion2(_)
main_sum_valoracion2(entries) ==
    IF entries = <<>> THEN 0
    ELSE unwrap_or_default(Head(entries).valoracion2) + main_sum_valoracion2(Tail(entries))

\* Modelo720::new of main.rs
\* a plausible slip: the header is left as Registro1Modelo720::new builds it
main_Modelo720_new_header_untouched(ejercicio, nif, nombre, telefono, entries) ==
    [header |-> main_Registro1Modelo720_new(ejercicio, nif, nombre, telefono),
     entries |-> entries]

main_Modelo720_new(ejercicio, nif, nombre, telefono, entries) ==
    [header |-> [main_Registro1Modelo720_new(ejercicio, nif, nombre, telefono) EXCEPT
                    !.numero_registros_tipo2 = Len(entries),
                    !.suma_valoracion1 = main_sum_valoracion1(entries),
                    !.suma_valoracion2 = main_sum_valoracion2(entries)],
     entries |-> entries]

---------------------------------------------------------------------------
(* The assets: Etf and MintosNote behind AssetWithValuation *)

Etf(isin, euro_valuation, shares) ==
    [kind |-> "Etf", isin |-> isin, euro_valuation |-> euro_valuation,
     shares |-> shares, deposit_country |-> <<"U", "S">>,
     description |-> <<"e", "t", "f">>]

MintosNote(isin, euro_valuation) ==
    [kind |-> "MintosNote", isin |-> isin, euro_valuation |-> euro_valuation,
     deposit_country |-> <<"L", "V">>,
     description |-> <<"M", "I", "N", "T", "O", "S">>]

valuation(a) == a.euro_valuation

\* a MintosNote's shares are its valuation
shares(a) == IF a.kind = "Etf" THEN a.shares ELSE valuation(a)

modelo_720_code(a) ==
    IF a.kind = "Etf" THEN [code |-> "I", subcode |-> 0]
    ELSE [code |-> "V", subcode |-> 2]

\* a plausible slip: a checked division, zero when there are no shares
price_per_share_checked(a) ==
    IF Decimal_is_zero(shares(a)) THEN Some(Decimal_ZERO)
    ELSE Some(Decimal_div(valuation(a), shares(a)))

\* price_per_share: valuation / shares; None stands for the panic of a
\* division by zero
price_per_share(a) ==
    IF Decimal_is_zero(shares(a)) THEN None
    ELSE Some(Decimal_div(valuation(a), shares(a)))

shares_as_cents(a) ==
    unwrap(Decimal_to_i64(
        round_dp_MidpointAwayFromZero(Decimal_mul(shares(a), Decimal_new(100, 0)), 0)))

valuation_as_cents(a) ==
    unwrap(Decimal_to_i64(
        round_dp_MidpointAwayFromZero(Decimal_mul(valuation(a), Decimal_new(100, 0)), 0)))

\* a plausible change: the baseline record states the shares of the asset
modelo_720_registro_with_shares(a, ejercicio, nif, name) ==
    [main_Registro2Modelo720_new(ejercicio, nif, name, a.deposit_country) EXCEPT
        !.clave_representacion_valores = Some("A"),
        !.clave_identificacion = Some(1),
        !.identificacion_valores = Some(IsinText(a.isin)),
        !.clave_tipo_bien = Some(modelo_720_code(a).code),
        !.subclave_tipo_bien = Some(modelo_720_code(a).subcode),
        !.identificacion_entidad = Some(to_uppercase(a.description)),
        !.codigo_pais_entidad = Some(SubSeq(IsinText(a.isin), 1, 2)),
        !.origen_bien_derecho = Some("M"),
        !.numero_valores = Some(shares(a))]

modelo_720_registro(a, ejercicio, nif, name) ==
    [main_Registro2Modelo720_new(ejercicio, nif, name, a.deposit_country) EXCEPT
        !.clave_representacion_valores = Some("A"),
        !.clave_identificacion = Some(1),
        !.identificacion_valores = Some(IsinText(a.isin)),
        !.clave_tipo_bien = Some(modelo_720_code(a).code),
        !.subclave_tipo_bien = Some(modelo_720_code(a).subcode),
        !.identificacion_entidad = Some(to_uppercase(a.description)),
        !.codigo_pais_entidad = Some(SubSeq(IsinText(a.isin), 1, 2)),
        !.origen_bien_derecho = Some("M")]

asset_difference(left, right) ==
    [valuation |-> Decimal_sub(valuation(left), valuation(right)),
     shares |-> Decimal_sub(shares(left), shares(right))]

---------------------------------------------------------------------------
(* main.rs: FullJoinIterator *)

\* Iterator::next of a slice iterator, held as the elements still to come
slice_iter_next(rest) ==
    IF rest = <<>> THEN [item |-> None, rest |-> rest]
    ELSE [item |-> Some(Head(rest)), rest |-> Tail(rest)]

FullJoinIterator_new(left, right) ==
    [is_initialized |-> FALSE,
     left |-> left,
     last_left |-> None,
     right |-> right,
     last_right |-> None]

OuterLeft(l) == [tag |-> "OuterLeft", left |-> Some(l), right |-> None]

\* a plausible slip: the pair built with its two sides exchanged
Inner_exchanged(l, r) == [tag |-> "Inner", left |-> Some(r), right |-> Some(l)]

Inner(l, r) == [tag |-> "Inner", left |-> Some(l), right |-> Some(r)]

OuterRight(r) == [tag |-> "OuterRight", left |-> None, right |-> Some(r)]

\* the first call fetches the head of both sides
FullJoinIterator_initialize(self) ==
    IF ~self.is_initialized
    THEN [self EXCEPT !.last_left = slice_iter_next(self.left).item,
                      !.left = slice_iter_next(self.left).rest,
                      !.last_right = slice_iter_next(self.right).item,
                      !.right = slice_iter_next(self.right).rest,
                      !.is_initialized = TRUE]
    ELSE self

advance_left(self) ==
    [self EXCEPT !.last_left = slice_iter_next(self.left).item,
                 !.left = slice_iter_next(self.left).rest]

\* a plausible slip: the right cursor is advanced twice, its head once
advance_right_skipping(self) ==
    [self EXCEPT !.last_right = slice_iter_next(slice_iter_next(self.right).rest).item,
                 !.right = slice_iter_next(slice_iter_next(self.right).rest).rest]

advance_right(self) ==
    [self EXCEPT !.last_right = slice_iter_next(self.right).item,
                 !.right = slice_iter_next(self.right).rest]

\* a plausible slip: <= where the code compares with <
isin_lt_or_equal(left, right) == left.isin <= right.isin

\* left.isin() < right.isin()
isin_lt(left, right) == left.isin < right.isin

\* left.isin() == right.isin()
isin_eq(left, right) == left.isin = right.isin

\* a plausible slip: a pair advances the left cursor only
FullJoinIterator_next_pair_left_only(self0) ==
    LET self == FullJoinIterator_initialize(self0)
        l == self.last_left
        r == self.last_right
    IN  IF ~is_some(l) /\ ~is_some(r) THEN [self |-> self, item |-> None]
        ELSE IF ~is_some(l)
            THEN [self |-> advance_right(self), item |-> Some(OuterRight(unwrap(r)))]
        ELSE IF ~is_some(r)
            THEN [self |-> advance_left(self), item |-> Some(OuterLeft(unwrap(l)))]
        ELSE IF isin_lt(unwrap(l), unwrap(r))
            THEN [self |-> advance_left(self), item |-> Some(OuterLeft(unwrap(l)))]
        ELSE IF isin_eq(unwrap(l), unwrap(r))
            THEN [self |-> advance_left(self),
                  item |-> Some(Inner(unwrap(l), unwrap(r)))]
        ELSE [self |-> advance_right(self), item |-> Some(OuterRight(unwrap(r)))]

\* FullJoinIterator::next: the iterator after the call and the item returned
FullJoinIterator_next(self0) ==
    LET self == FullJoinIterator_initialize(self0)
        l == self.last_left
        r == self.last_right
    IN  IF ~is_some(l) /\ ~is_some(r) THEN [self |-> self, item |-> None]
        ELSE IF ~is_some(l)
            THEN [self |-> advance_right(self), item |-> Some(OuterRight(unwrap(r)))]
        ELSE IF ~is_some(r)
            THEN [self |-> advance_left(self), item |-> Some(OuterLeft(unwrap(l)))]
        ELSE IF isin_lt(unwrap(l), unwrap(r))
            THEN [self |-> advance_left(self), item |-> Some(OuterLeft(unwrap(l)))]
        ELSE IF isin_eq(unwrap(l), unwrap(r))
            THEN [self |-> advance_right(advance_left(self)),
                  item |-> Some(Inner(unwrap(l), unwrap(r)))]
        ELSE [self |-> advance_right(self), item |-> Some(OuterRight(unwrap(r)))]

---------------------------------------------------------------------------
(* main.rs: compute_modelo720 *)

NewAcquisition(a) == [tag |-> "NewAcquisition", new |-> Some(a), old |-> None]

Changed(new, old) == [tag |-> "Changed", new |-> Some(new), old |-> Some(old)]

Sold(old) == [tag |-> "Sold", new |-> None, old |-> Some(old)]

\* the first closure of compute_modelo720
to_PortfolioChange(result) ==
    IF result.tag = "OuterLeft" THEN NewAcquisition(unwrap(result.left))
    ELSE IF result.tag = "Inner" THEN Changed(unwrap(result.left), unwrap(result.right))
    ELSE Sold(unwrap(result.right))

\* (quantity * price * 100) rounded half away from zero, as Option<i64>
cents_of(quantity, price) ==
    Decimal_to_i64(round_dp_MidpointAwayFromZero(
        Decimal_mul(Decimal_mul(quantity, price), Decimal_new(100, 0)), 0))

\* a plausible slip: the valuation in euros where cents are due
expand_NewAcquisition_euros(acquisition, ejercicio, nif, name) ==
    <<[modelo_720_registro(acquisition, ejercicio, nif, name) EXCEPT
        !.origen_bien_derecho = Some("A"),
        !.numero_valores = Some(shares(acquisition)),
        !.valoracion1 = Decimal_to_i64(valuation(acquisition))]>>

expand_NewAcquisition(acquisition, ejercicio, nif, name) ==
    <<[modelo_720_registro(acquisition, ejercicio, nif, name) EXCEPT
        !.origen_bien_derecho = Some("A"),
        !.numero_valores = Some(shares(acquisition)),
        !.valoracion1 = Some(valuation_as_cents(acquisition))]>>

\* a plausible slip: the kept record restated with the new quantity
expand_Changed_more_new_quantity(new_value, old_value, diff, current_price_per_share, ejercicio, nif, name) ==
    LET previous_registro ==
            [modelo_720_registro(old_value, ejercicio, nif, name) EXCEPT
                !.origen_bien_derecho = Some("M"),
                !.numero_valores = Some(shares(new_value)),
                !.valoracion1 = cents_of(shares(new_value), current_price_per_share)]
        new_registro ==
            [modelo_720_registro(new_value, ejercicio, nif, name) EXCEPT
                !.origen_bien_derecho = Some("A"),
                !.numero_valores = Some(diff.shares),
                !.valoracion1 = cents_of(diff.shares, current_price_per_share)]
    IN  <<previous_registro, new_registro>>

\* more shares than before: the old quantity at the current price, then
\* an acquisition of the difference
expand_Changed_more(new_value, old_value, diff, current_price_per_share, ejercicio, nif, name) ==
    LET previous_registro ==
            [modelo_720_registro(old_value, ejercicio, nif, name) EXCEPT
                !.origen_bien_derecho = Some("M"),
                !.numero_valores = Some(shares(old_value)),
                !.valoracion1 = cents_of(shares(old_value), current_price_per_share)]
        new_registro ==
            [modelo_720_registro(new_value, ejercicio, nif, name) EXCEPT
                !.origen_bien_derecho = Some("A"),
                !.numero_valores = Some(diff.shares),
                !.valoracion1 = cents_of(diff.shares, current_price_per_share)]
    IN  <<previous_registro, new_registro>>

\* a plausible change: the unchanged position restated at its new valuation
expand_Changed_same_revalued(new_value, ejercicio, nif, name) ==
    <<[modelo_720_registro(new_value, ejercicio, nif, name) EXCEPT
        !.origen_bien_derecho = Some("M"),
        !.valoracion1 = Some(valuation_as_cents(new_value))]>>

expand_Changed_same(new_value, ejercicio, nif, name) ==
    <<[modelo_720_registro(new_value, ejercicio, nif, name) EXCEPT
        !.origen_bien_derecho = Some("M")]>>

\* a plausible slip: the sale keeps the sign of the difference
expand_Changed_less_signed(new_value, diff, current_price_per_share, ejercicio, nif, name) ==
    LET current_registro ==
            [modelo_720_registro(new_value, ejercicio, nif, name) EXCEPT
                !.origen_bien_derecho = Some("M")]
        sale_registro ==
            [current_registro EXCEPT
                !.origen_bien_derecho = Some("C"),
                !.numero_valores = Some(diff.shares),
                !.valoracion1 = cents_of(diff.shares, current_price_per_share)]
    IN  <<current_registro, sale_registro>>

\* a plausible slip: the sale pushed before what remains
expand_Changed_less_sale_first(new_value, diff, current_price_per_share, ejercicio, nif, name) ==
    LET current_registro ==
            [modelo_720_registro(new_value, ejercicio, nif, name) EXCEPT
                !.origen_bien_derecho = Some("M")]
        sale_shares == Decimal_abs(diff.shares)
        sale_registro ==
            [current_registro EXCEPT
                !.origen_bien_derecho = Some("C"),
                !.numero_valores = Some(sale_shares),
                !.valoracion1 = cents_of(Decimal_abs(sale_shares), current_price_per_share)]
    IN  <<sale_registro, current_registro>>

\* fewer shares than before: what remains, then a sale of the difference
expand_Changed_less(new_value, diff, current_price_per_share, ejercicio, nif, name) ==
    LET current_registro ==
            [modelo_720_registro(new_value, ejercicio, nif, name) EXCEPT
                !.origen_bien_derecho = Some("M")]
        sale_shares == Decimal_abs(diff.shares)
        sale_registro ==
            [current_registro EXCEPT
                !.origen_bien_derecho = Some("C"),
                !.numero_valores = Some(sale_shares),
                !.valoracion1 = cents_of(Decimal_abs(sale_shares), current_price_per_share)]
    IN  <<current_registro, sale_registro>>

\* a plausible change: the disposal restated at its last valuation
expand_Sold_valued(old_value, ejercicio, nif, name) ==
    <<[modelo_720_registro(old_value, ejercicio, nif, name) EXCEPT
        !.origen_bien_derecho = Some("C"),
        !.numero_valores = Some(shares(old_value)),
        !.valoracion1 = Some(valuation_as_cents(old_value))]>>

expand_Sold(old_value, ejercicio, nif, name) ==
    <<[modelo_720_registro(old_value, ejercicio, nif, name) EXCEPT
        !.origen_bien_derecho = Some("C"),
        !.numero_valores = Some(shares(old_value))]>>

\* the second closure of compute_modelo720: the records of one change;
\* panic when the price of a zero-share current asset is computed
expand(change, ejercicio, nif, name) ==
    IF change.tag = "NewAcquisition"
    THEN [panic |-> FALSE,
          registros |-> expand_NewAcquisition(unwrap(change.new), ejercicio, nif, name)]
    ELSE IF change.tag = "Sold"
    THEN [panic |-> FALSE,
          registros |-> expand_Sold(unwrap(change.old), ejercicio, nif, name)]
    ELSE LET new_value == unwrap(change.new)
             old_value == unwrap(change.old)
             diff == asset_difference(new_value, old_value)
             price == price_per_share(new_value)
         IN  IF ~is_some(price) THEN [panic |-> TRUE, registros |-> <<>>]
             ELSE IF Decimal_cmp(diff.shares, Decimal_ZERO) = 1
             THEN [panic |-> FALSE,
                   registros |-> expand_Changed_more(new_value, old_value, diff,
                                     unwrap(price), ejercicio, nif, name)]
             ELSE IF Decimal_cmp(diff.shares, Decimal_ZERO) = 0
             THEN [panic |-> FALSE,
                   registros |-> expand_Changed_same(new_value, ejercicio, nif, name)]
             ELSE [panic |-> FALSE,
                   registros |-> expand_Changed_less(new_value, diff, unwrap(price),
                                     ejercicio, nif, name)]

---------------------------------------------------------------------------
(* modelo.rs: text and integers of the fixed-width codec *)

DIGITS == <<"0", "1", "2", "3", "4", "5", "6", "7", "8", "9">>

is_ascii_digit(c) == \E i \in 1..Len(DIGITS) : DIGITS[i] = c

to_digit(c) == (CHOOSE i \in 1..Len(DIGITS) : DIGITS[i] = c) - 1

\* n copies of the character c
repeat(c, n) == [i \in 1..n |-> c]

\* the decimal digits of n >= 0
RECURSIVE digits_of(_)
digits_of(n) ==
    IF n < 10 THEN <<DIGITS[n + 1]>>
    ELSE Append(digits_of(n \div 10), DIGITS[(n % 10) + 1])

\* the value of a run of decimal digits
RECURSIVE digits_value(_)
digits_value(s) ==
    IF s = <<>> THEN 0
    ELSE 10 * digits_value(SubSeq(s, 1, Len(s) - 1)) + to_digit(s[Len(s)])

\* Display of the integer types (i8, i16, usize, and the i64 of to_i64)
int_to_string(n) == IF n < 0 THEN <<"-">> \o digits_of(-n) ELSE digits_of(n)

\* format!("{number:0>width$}"): zeros on the left up to width, never cut
zero_padded(s, width) ==
    IF Len(s) >= width THEN s ELSE repeat("0", width - Len(s)) \o s

\* str::trim: white space is dropped at both ends
trim(s) ==
    LET inked == {i \in 1..Len(s) : s[i] \notin {" ", "\n"}}
    IN  IF inked = {} THEN <<>>
        ELSE SubSeq(s, CHOOSE i \in inked : \A j \in inked : i <= j,
                       CHOOSE i \in inked : \A j \in inked : i >= j)

\* Result
Ok(v) == [ok |-> TRUE, value |-> v]

Err == [ok |-> FALSE, value |-> <<>>]

\* a panic inside a function that returns a Result: nothing is returned
Panic == [ok |-> FALSE, value |-> <<"panic">>]

\* char::len_utf8: the bytes of a character in a str
len_utf8(c) == IF c \in {"Ñ", "ñ"} THEN 2 ELSE 1

\* an optional sign in front of a number's text
has_sign(s) == s # <<>> /\ Head(s) \in {"+", "-"}

unsigned_part(s) == IF has_sign(s) THEN Tail(s) ELSE s

all_digits(s) == s # <<>> /\ \A i \in 1..Len(s) : is_ascii_digit(s[i])

\* str::parse for i8, i16 and usize: an optional sign and at least one digit
parse_int(s) ==
    IF ~all_digits(unsigned_part(s)) THEN Err
    ELSE LET n == digits_value(unsigned_part(s))
         IN  Ok(IF has_sign(s) /\ Head(s) = "-" THEN -n ELSE n)

\* An i64 is held as its decimal text (7200000000000 is wider than the
\* integers of the model).  str::parse for i64 gives the text of the value:
\* the leading zeros and a plus sign are gone.
parse_i64(s) ==
    IF ~all_digits(unsigned_part(s)) THEN Err
    ELSE LET body == unsigned_part(s)
             inked == {i \in 1..Len(body) : body[i] # "0"}
             canonical ==
                 IF inked = {} THEN <<"0">>
                 ELSE SubSeq(body, CHOOSE i \in inked : \A j \in inked : i <= j, Len(body))
         IN  Ok(IF has_sign(s) /\ Head(s) = "-" /\ inked # {}
                THEN <<"-">> \o canonical ELSE canonical)

\* Decimal::from(i64)
Decimal_from_i64(n) ==
    [neg |-> has_sign(n) /\ Head(n) = "-", m |-> digits_value(unsigned_part(n)), e |-> 0]

\* Decimal::from_str: an optional sign, digits, at most one decimal point; a
\* text without any digit is no number
Decimal_from_str(s) ==
    LET body == unsigned_part(s)
        points == {i \in 1..Len(body) : body[i] = "."}
        digits == SelectSeq(body, LAMBDA c : c # ".")
    IN  IF Cardinality(points) > 1 \/ digits = <<>> \/ ~all_digits(digits) THEN Err
        ELSE LET m == digits_value(digits)
                 e == IF points = {} THEN 0 ELSE Len(body) - (CHOOSE i \in points : TRUE)
             IN  Ok([neg |-> has_sign(s) /\ Head(s) = "-" /\ m # 0, m |-> m, e |-> e])

---------------------------------------------------------------------------
(* modelo.rs: Modelo720Number, Shares, Modelo720Date, Modelo720Titularidad *)

\* Modelo720Number::rounded_to_cents
rounded_to_cents(d) == round_dp_MidpointAwayFromZero(d, 2)

\* Sum for Modelo720Number: += from Decimal::ZERO, in order
RECURSIVE Modelo720Number_sum(_)
Modelo720Number_sum(ds) ==
    IF ds = <<>> THEN Decimal_ZERO
    ELSE Decimal_add(Modelo720Number_sum(SubSeq(ds, 1, Len(ds) - 1)), ds[Len(ds)])

\* the sign character of Modelo720Number::serialize
sign_char(decimal_cents) ==
    IF Decimal_is_sign_negative(decimal_cents) THEN "N" ELSE " "

\* a plausible slip: the digits padded to N characters, not N - 1
Modelo720Number_serialize_wide(N, d) ==
    LET decimal_cents == rounded_to_cents(d)
        sign == sign_char(decimal_cents)
        number == unwrap(Decimal_to_i64(
                      Decimal_mul(Decimal_abs(decimal_cents), Decimal_new(100, 0))))
    IN  <<sign>> \o zero_padded(int_to_string(number), N)

\* Serialize for Modelo720Number<N>
Modelo720Number_serialize(N, d) ==
    LET decimal_cents == rounded_to_cents(d)
        sign == sign_char(decimal_cents)
        number == unwrap(Decimal_to_i64(
                      Decimal_mul(Decimal_abs(decimal_cents), Decimal_new(100, 0))))
    IN  <<sign>> \o zero_padded(int_to_string(number), N - 1)

\* a plausible slip: the sign character split off and then not looked at
Modelo720Number_visit_str_unsigned(N, v) ==
    LET number == IF Len(v) = N THEN SubSeq(v, 2, Len(v)) ELSE v
        decimal == Decimal_from_str(number)
    IN  IF ~decimal.ok THEN Err
        ELSE Ok(Decimal_div(decimal.value, Decimal_new(100, 0)))

\* Modelo720NumberVisitor<N>::visit_str
Modelo720Number_visit_str(N, v) ==
    LET sign == IF Len(v) = N THEN SubSeq(v, 1, 1) ELSE <<" ">>
        number == IF Len(v) = N THEN SubSeq(v, 2, Len(v)) ELSE v
        decimal == Decimal_from_str(number)
    IN  IF ~decimal.ok THEN Err
        ELSE LET n == IF sign = <<" ">> THEN decimal.value ELSE Decimal_neg(decimal.value)
             IN  Ok(Decimal_div(n, Decimal_new(100, 0)))

\* Serialize for Shares: the hundredths as an i64
Shares_serialize(d) ==
    int_to_string(unwrap(Decimal_to_i64(
        Decimal_mul(round_dp_MidpointAwayFromZero(d, 2), Decimal_new(100, 0)))))

\* Deserialize for Shares: deserialize_i64, then cents / 100
Shares_deserialize(s) ==
    LET cents == parse_i64(s)
    IN  IF ~cents.ok THEN Err
        ELSE Ok(Decimal_div(Decimal_from_i64(cents.value), Decimal_new(100, 0)))

\* NaiveDate
NaiveDate(year, month, day) == [year |-> year, month |-> month, day |-> day]

is_leap_year(y) == (y % 4 = 0 /\ y % 100 # 0) \/ y % 400 = 0

days_in_month(y, m) ==
    IF m = 2 THEN (IF is_leap_year(y) THEN 29 ELSE 28)
    ELSE IF m \in {4, 6, 9, 11} THEN 30 ELSE 31

\* v.format("%Y%m%d")
NaiveDate_format(v) ==
    zero_padded(int_to_string(v.year), 4) \o zero_padded(int_to_string(v.month), 2)
        \o zero_padded(int_to_string(v.day), 2)

\* NaiveDate::parse_from_str(v, "%Y%m%d")
NaiveDate_parse_from_str(v) ==
    IF Len(v) # 8 \/ ~all_digits(v) THEN Err
    ELSE LET y == digits_value(SubSeq(v, 1, 4))
             m == digits_value(SubSeq(v, 5, 6))
             d == digits_value(SubSeq(v, 7, 8))
         IN  IF m \in 1..12 /\ d \in 1..days_in_month(y, m)
             THEN Ok(NaiveDate(y, m, d)) ELSE Err

\* Serialize for Modelo720Date: None is serialize_none, an empty value
Modelo720Date_serialize(date) ==
    IF is_some(date) THEN NaiveDate_format(unwrap(date)) ELSE <<>>

\* a plausible slip: no special case for the text of an absent date
Modelo720Date_visit_str_strict(v) ==
    LET date == NaiveDate_parse_from_str(v)
    IN  IF date.ok THEN Ok(Some(date.value)) ELSE Err

\* Modelo720DateVisitor::visit_str
Modelo720Date_visit_str(v) ==
    IF v = repeat("0", 8) THEN Ok(None)
    ELSE LET date == NaiveDate_parse_from_str(v)
         IN  IF date.ok THEN Ok(Some(date.value)) ELSE Err

\* Modelo720Titularidad: the variants in the order of their codes 1..8
Titularidades ==
    <<"Titular", "Representate", "Autorizado", "Beneficiario", "Usufructuario",
      "Tomador", "ConPoderDisposicion", "Otros">>

Titularidad(variant) == [variant |-> variant, what |-> <<>>]

Otros(what) == [variant |-> "Otros", what |-> what]

\* Serialize for Modelo720Titularidad
Modelo720Titularidad_serialize(t) ==
    LET code == CHOOSE i \in 1..Len(Titularidades) : Titularidades[i] = t.variant
    IN  IF t.variant = "Otros" THEN <<"8">> \o to_uppercase(t.what)
        ELSE <<DIGITS[code + 1]>>

\* str::split_at(mid): panics when mid is past the end of the text or
\* inside a character
split_at_1(v) ==
    IF v = <<>> \/ len_utf8(v[1]) > 1 THEN Panic
    ELSE Ok(<<v[1], Tail(v)>>)

\* Modelo720TitularidadVisitor::visit_str
Modelo720Titularidad_visit_str(v) ==
    LET split == split_at_1(v)
    IN  IF ~split.ok THEN Panic
        ELSE LET ownership_type == split.value[1]
                 potential_str == split.value[2]
             IN  IF ownership_type = "8" THEN Ok(Otros(potential_str))
                 ELSE IF is_ascii_digit(ownership_type)
                         /\ to_digit(ownership_type) \in 1..7
                      THEN Ok(Titularidad(Titularidades[to_digit(ownership_type)]))
                      ELSE Err

---------------------------------------------------------------------------
(* modelo.rs: the two records and their fixed_width layout *)

\* #[fixed_width(range = "lo..hi")]: left justified, padded with spaces
Field(name, lo, hi, type) ==
    [name |-> name, lo |-> lo, hi |-> hi, justify |-> "left", pad_with |-> " ",
     type |-> type]

\* #[fixed_width(range = "lo..hi", justify = "right", pad_with = "0")]
ZeroField(name, lo, hi, type) ==
    [name |-> name, lo |-> lo, hi |-> hi, justify |-> "right", pad_with |-> "0",
     type |-> type]

\* a plausible slip: the parameter of the header's totals copied to every
\* Modelo720Number field
NumberField_of_header(name, lo, hi, N) ==
    [name |-> name, lo |-> lo, hi |-> hi, justify |-> "left", pad_with |-> " ",
     type |-> "Modelo720Number", N |-> 162 - 144]

\* #[fixed_width(range = "lo..hi")] on a field of type Modelo720Number<N>
NumberField(name, lo, hi, N) ==
    [name |-> name, lo |-> lo, hi |-> hi, justify |-> "left", pad_with |-> " ",
     type |-> "Modelo720Number", N |-> N]

\* the const parameter of the type of a field, for the types that have one
type_parameter(field) ==
    IF field.type = "Modelo720Number" THEN field.N ELSE field.hi - field.lo

\* the width of a record and of every line of the file
RecordWidth == 500

\* struct Registro1Modelo720
Registro1Modelo720_fields ==
    << Field("tipo", 0, 1, "i8"),
       Field("modelo_declaracion", 1, 4, "i16"),
       Field("ejercicio", 4, 8, "i16"),
       Field("nif_declarante", 8, 17, "String"),
       Field("nombre", 17, 57, "String"),
       Field("tipo_soporte", 57, 58, "char"),
       Field("telefono", 58, 67, "i64"),
       Field("nombre_persona_contacto", 67, 107, "String"),
       ZeroField("id_declaracion", 107, 120, "i64"),
       Field("declaracion_complementaria", 120, 121, "Option<char>"),
       Field("declaracion_sustitutiva", 121, 122, "Option<char>"),
       ZeroField("id_declaracion_anterior", 122, 135, "Option<i64>"),
       ZeroField("numero_registros_tipo2", 135, 144, "usize"),
       NumberField("suma_valoracion1", 144, 162, 162 - 144),
       NumberField("suma_valoracion2", 162, 180, 180 - 162),
       Field("blancos", 180, 500, "String") >>

\* struct Registro2Modelo720
Registro2Modelo720_fields ==
    << Field("tipo", 0, 1, "i8"),
       Field("modelo_declaracion", 1, 4, "i16"),
       Field("ejercicio", 4, 8, "i16"),
       Field("nif_declarante", 8, 17, "String"),
       Field("nif_declarado", 17, 26, "String"),
       Field("nif_representante_legal", 26, 35, "Option<String>"),
       Field("nombre", 35, 75, "String"),
       Field("tipo_titularidad", 75, 101, "Modelo720Titularidad"),
       Field("clave_tipo_bien", 101, 102, "Option<char>"),
       ZeroField("subclave_tipo_bien", 102, 103, "Option<i8>"),
       Field("tipo_derecho_real_sobre_inmueble", 103, 128, "Option<String>"),
       Field("codigo_pais", 128, 130, "String"),
       ZeroField("clave_identificacion", 130, 131, "Option<i8>"),
       Field("identificacion_valores", 131, 143, "Option<String>"),
       Field("clave_identificacion_cuenta", 143, 144, "Option<char>"),
       Field("codigo_bic", 144, 155, "Option<String>"),
       Field("codigo_cuenta", 155, 189, "Option<String>"),
       Field("identificacion_entidad", 189, 230, "Option<String>"),
       Field("nif_pais_residencia_fiscal", 230, 250, "Option<String>"),
       Field("nombre_via_publica_entidad", 250, 302, "Option<String>"),
       Field("complemento_entidad", 302, 342, "Option<String>"),
       Field("poblacion_entidad", 342, 372, "Option<String>"),
       Field("provincia_entidad", 372, 402, "Option<String>"),
       Field("codigo_postal_entidad", 402, 412, "Option<String>"),
       Field("codigo_pais_entidad", 412, 414, "Option<String>"),
       ZeroField("fecha_incorporacion", 414, 422, "Modelo720Date"),
       Field("origen_bien_derecho", 422, 423, "Option<char>"),
       ZeroField("fecha_extincion", 423, 431, "Modelo720Date"),
       NumberField("valoracion1", 431, 446, 446 - 431),
       NumberField("valoracion2", 446, 461, 461 - 446),
       Field("clave_representacion_valores", 461, 462, "Option<char>"),
       ZeroField("numero_valores", 462, 474, "Option<Shares>"),
       Field("clave_tipo_bien_inmueble", 474, 475, "Option<char>"),
       ZeroField("porcentaje", 475, 480, "i64"),
       Field("blancos", 480, 500, "String") >>

\* Registro1Modelo720::new
Registro1Modelo720_new(ejercicio, nif, nombre, telefono) ==
    [tipo |-> 1,
     modelo_declaracion |-> 720,
     ejercicio |-> ejercicio,
     nif_declarante |-> nif,
     nombre |-> nombre,
     tipo_soporte |-> "T",
     telefono |-> telefono,
     nombre_persona_contacto |-> nombre,
     id_declaracion |-> <<"7", "2", "0", "0", "0", "0", "0", "0", "0", "0", "0", "0", "0">>,
     declaracion_complementaria |-> None,
     declaracion_sustitutiva |-> None,
     id_declaracion_anterior |-> None,
     numero_registros_tipo2 |-> 0,
     suma_valoracion1 |-> Decimal_ZERO,
     suma_valoracion2 |-> Decimal_ZERO,
     blancos |-> <<>>]

\* Registro2Modelo720::new
Registro2Modelo720_new(ejercicio, nif, nombre, codigo_pais) ==
    [tipo |-> 2,
     modelo_declaracion |-> 720,
     ejercicio |-> ejercicio,
     nif_declarante |-> nif,
     nif_declarado |-> nif,
     nif_representante_legal |-> None,
     nombre |-> nombre,
     tipo_titularidad |-> Titularidad("Titular"),
     clave_tipo_bien |-> None,
     subclave_tipo_bien |-> None,
     tipo_derecho_real_sobre_inmueble |-> None,
     codigo_pais |-> codigo_pais,
     clave_identificacion |-> None,
     identificacion_valores |-> None,
     clave_identificacion_cuenta |-> None,
     codigo_bic |-> None,
     codigo_cuenta |-> None,
     identificacion_entidad |-> None,
     nif_pais_residencia_fiscal |-> None,
     nombre_via_publica_entidad |-> None,
     complemento_entidad |-> None,
     poblacion_entidad |-> None,
     provincia_entidad |-> None,
     codigo_postal_entidad |-> None,
     codigo_pais_entidad |-> None,
     fecha_incorporacion |-> None,
     origen_bien_derecho |-> None,
     fecha_extincion |-> None,
     valoracion1 |-> Decimal_ZERO,
     valoracion2 |-> Decimal_ZERO,
     clave_representacion_valores |-> None,
     numero_valores |-> None,
     clave_tipo_bien_inmueble |-> None,
     porcentaje |-> <<"1", "0", "0", "0", "0">>,
     blancos |-> <<>>]

---------------------------------------------------------------------------
(* modelo.rs: serializing and deserializing a record through fixed_width *)

\* the text a value of a field's type hands to the serializer; None is
\* serialize_none, an empty value
serialize(type, v, width) ==
    CASE type \in {"i8", "i16", "usize"} -> int_to_string(v)
      [] type \in {"i64", "String"} -> v
      [] type = "char" -> <<v>>
      [] type = "Option<char>" -> IF is_some(v) THEN <<unwrap(v)>> ELSE <<>>
      [] type \in {"Option<String>", "Option<i64>"} ->
            IF is_some(v) THEN unwrap(v) ELSE <<>>
      [] type = "Option<i8>" -> IF is_some(v) THEN int_to_string(unwrap(v)) ELSE <<>>
      [] type = "Option<Shares>" -> IF is_some(v) THEN Shares_serialize(unwrap(v)) ELSE <<>>
      [] type = "Modelo720Date" -> Modelo720Date_serialize(v)
      [] type = "Modelo720Number" -> Modelo720Number_serialize(width, v)
      [] type = "Modelo720Titularidad" -> Modelo720Titularidad_serialize(v)

\* the writer lays a value in its field: cut to the width of the range,
\* justified as the attribute says and filled with the attribute's pad_with
write_field(value, field) ==
    LET width == field.hi - field.lo
        cut == IF Len(value) > width THEN SubSeq(value, 1, width) ELSE value
        fill == repeat(field.pad_with, width - Len(cut))
    IN  IF field.justify = "right" THEN fill \o cut ELSE cut \o fill

\* the line of a record: its fields in the order of the struct
RECURSIVE to_line(_, _, _)
to_line(fields, record, n) ==
    IF n = 0 THEN <<>>
    ELSE to_line(fields, record, n - 1)
            \o write_field(serialize(fields[n].type, record[fields[n].name],
                                     type_parameter(fields[n])), fields[n])

Registro1Modelo720_serialize(header) ==
    to_line(Registro1Modelo720_fields, header, Len(Registro1Modelo720_fields))

Registro2Modelo720_serialize(entry) ==
    to_line(Registro2Modelo720_fields, entry, Len(Registro2Modelo720_fields))

\* Some of a deserialized value
map_Some(result) == IF result.ok THEN Ok(Some(result.value)) ELSE Err

\* the value read from the bytes of a field: the deserializer hands the
\* visitors the trimmed text, and an Option is None when nothing is left
deserialize(type, bytes, width) ==
    LET v == trim(bytes)
    IN  CASE type \in {"i8", "i16", "usize"} -> parse_int(v)
          [] type = "i64" -> parse_i64(v)
          [] type = "String" -> Ok(v)
          [] type = "char" -> IF Len(v) = 1 THEN Ok(v[1]) ELSE Err
          [] type = "Option<char>" ->
                IF v = <<>> THEN Ok(None)
                ELSE IF Len(v) = 1 THEN Ok(Some(v[1])) ELSE Err
          [] type = "Option<String>" -> IF v = <<>> THEN Ok(None) ELSE Ok(Some(v))
          [] type = "Option<i8>" -> IF v = <<>> THEN Ok(None) ELSE map_Some(parse_int(v))
          [] type = "Option<i64>" -> IF v = <<>> THEN Ok(None) ELSE map_Some(parse_i64(v))
          [] type = "Option<Shares>" ->
                IF v = <<>> THEN Ok(None) ELSE map_Some(Shares_deserialize(v))
          [] type = "Modelo720Date" -> Modelo720Date_visit_str(v)
          [] type = "Modelo720Number" -> Modelo720Number_visit_str(width, v)
          [] type = "Modelo720Titularidad" -> Modelo720Titularidad_visit_str(v)

\* the field called name
field_of(fields, name) ==
    fields[CHOOSE i \in 1..Len(fields) : fields[i].name = name]

\* what the deserializer reads in the range of a field of a line
read_field(line, field) ==
    deserialize(field.type, SubSeq(line, field.lo + 1, field.hi), type_parameter(field))

\* fixed_width::from_bytes: every field of the struct from its range
from_bytes(fields, line) ==
    IF Len(line) < RecordWidth THEN Err
    ELSE LET names == {fields[i].name : i \in 1..Len(fields)}
             read == [name \in names |-> read_field(line, field_of(fields, name))]
         IN  IF \A name \in names : read[name].ok
             THEN Ok([name \in names |-> read[name].value])
             ELSE Err

Registro1Modelo720_from_bytes(line) == from_bytes(Registro1Modelo720_fields, line)

Registro2Modelo720_from_bytes(line) == from_bytes(Registro2Modelo720_fields, line)

---------------------------------------------------------------------------
(* modelo.rs: Modelo720 *)

\* the column of rounded valuations Modelo720::new sums
rounded_valoracion1(entries) ==
    [i \in 1..Len(entries) |-> rounded_to_cents(entries[i].valoracion1)]

rounded_valoracion2(entries) ==
    [i \in 1..Len(entries) |-> rounded_to_cents(entries[i].valoracion2)]

\* a plausible slip: the total is rounded to cents, not each detail
Modelo720_new_rounding_the_total(ejercicio, nif, nombre, telefono, entries) ==
    [header |-> [Registro1Modelo720_new(ejercicio, nif, nombre, telefono) EXCEPT
                    !.numero_registros_tipo2 = Len(entries),
                    !.suma_valoracion1 = rounded_to_cents(Modelo720Number_sum(
                        [i \in 1..Len(entries) |-> entries[i].valoracion1])),
                    !.suma_valoracion2 = rounded_to_cents(Modelo720Number_sum(
                        [i \in 1..Len(entries) |-> entries[i].valoracion2]))],
     entries |-> entries]

\* Modelo720::new
Modelo720_new(ejercicio, nif, nombre, telefono, entries) ==
    [header |-> [Registro1Modelo720_new(ejercicio, nif, nombre, telefono) EXCEPT
                    !.numero_registros_tipo2 = Len(entries),
                    !.suma_valoracion1 = Modelo720Number_sum(rounded_valoracion1(entries)),
                    !.suma_valoracion2 = Modelo720Number_sum(rounded_valoracion2(entries))],
     entries |-> entries]

\* a plausible slip: the header is computed again from the joined details
Modelo720_concat_recomputed(self, other) ==
    [header |-> [self.header EXCEPT
                    !.numero_registros_tipo2 = Len(self.entries \o other.entries),
                    !.suma_valoracion1 = Modelo720Number_sum(
                        rounded_valoracion1(self.entries \o other.entries)),
                    !.suma_valoracion2 = Modelo720Number_sum(
                        rounded_valoracion2(self.entries \o other.entries))],
     entries |-> self.entries \o other.entries]

\* a plausible slip: the header of the declaration handed in is kept
Modelo720_concat_header_of_other(self, other) ==
    [header |-> [other.header EXCEPT
                    !.numero_registros_tipo2 = @ + self.header.numero_registros_tipo2,
                    !.suma_valoracion1 = Decimal_add(self.header.suma_valoracion1, @),
                    !.suma_valoracion2 = Decimal_add(self.header.suma_valoracion2, @)],
     entries |-> self.entries \o other.entries]

\* a plausible slip: the second total is left out of the additions
Modelo720_concat_one_total(self, other) ==
    [header |-> [self.header EXCEPT
                    !.numero_registros_tipo2 = @ + other.header.numero_registros_tipo2,
                    !.suma_valoracion1 = Decimal_add(@, other.header.suma_valoracion1)],
     entries |-> self.entries \o other.entries]

\* Modelo720::concat, and concat_modelo_720 of main.rs
Modelo720_concat(self, other) ==
    [header |-> [self.header EXCEPT
                    !.numero_registros_tipo2 = @ + other.header.numero_registros_tipo2,
                    !.suma_valoracion1 = Decimal_add(@, other.header.suma_valoracion1),
                    !.suma_valoracion2 = Decimal_add(@, other.header.suma_valoracion2)],
     entries |-> self.entries \o other.entries]

LineBreak == <<"\n">>

\* write_serialized: the records' lines, a line break between two of them
RECURSIVE write_serialized(_)
write_serialized(lines) ==
    IF lines = <<>> THEN <<>>
    ELSE IF Len(lines) = 1 THEN lines[1]
    ELSE lines[1] \o LineBreak \o write_serialized(Tail(lines))

\* Modelo720::save_to_file: the bytes of the file
save_to_file(self) ==
    write_serialized(<<Registro1Modelo720_serialize(self.header)>>)
        \o LineBreak
        \o write_serialized([i \in 1..Len(self.entries) |->
                                Registro2Modelo720_serialize(self.entries[i])])

\* Reader::width(500).linebreak(Newline).byte_reader(): the records of the
\* file, each RecordWidth bytes and the line break after it
RECURSIVE byte_reader(_)
byte_reader(bytes) ==
    IF bytes = <<>> THEN <<>>
    ELSE IF Len(bytes) <= RecordWidth + 1
    THEN <<SubSeq(bytes, 1, IF Len(bytes) < RecordWidth THEN Len(bytes) ELSE RecordWidth)>>
    ELSE <<SubSeq(bytes, 1, RecordWidth)>>
            \o byte_reader(SubSeq(bytes, RecordWidth + 2, Len(bytes)))

\* Modelo720::from_path on the bytes of the file; Err is a panic: of
\* header.unwrap() when the first record is missing or does not decode, of
\* from_bytes(..).unwrap() when a later record does not decode
from_path(bytes) ==
    LET records == byte_reader(bytes)
        header == IF records = <<>> THEN Err
                  ELSE Registro1Modelo720_from_bytes(records[1])
        tipo_2_entries == [i \in 1..(Len(records) - 1) |->
                              Registro2Modelo720_from_bytes(records[i + 1])]
    IN  IF header.ok /\ \A i \in 1..Len(tipo_2_entries) : tipo_2_entries[i].ok
        THEN Ok([header |-> header.value,
                 entries |-> [i \in 1..Len(tipo_2_entries) |-> tipo_2_entries[i].value]])
        ELSE Err

---------------------------------------------------------------------------
(* State *)

VARIABLES
    current,    \* compute_modelo720: the current portfolio's assets
    previous,   \* compute_modelo720: the previous portfolio's assets
    iterator,   \* the FullJoinIterator over current and previous
    yielded,    \* the join results returned so far, in order
    emitted,    \* for each join result, the number of records its expansion pushed
    entries,    \* the detail records collected so far
    pc,         \* "joining", "done", "ready" or "panicked"
    modelo720,  \* the declaration compute_modelo720 returned, if any
    declaration,\* the Modelo720 held (a of concat_modelo_720, self of concat)
    other,      \* the second Modelo720 held (b of concat_modelo_720), if any
    file,       \* the bytes of the file at the path, if there is one
    op,         \* the last operation on the declaration or the file
    provenance, \* where declaration comes from: "new", "from_path", "concat"
    input,      \* the argument of a codec function called on its own
    output,     \* what the function returned, once it has
    decoded     \* what reading that result back returned, once it has

joinData == <<current, previous, iterator, yielded, emitted, entries, modelo720>>

joinVars == <<joinData, pc>>

fileVars == <<declaration, other, file, op, provenance>>

pureVars == <<input, output, decoded>>

vars == <<joinVars, fileVars, pureVars>>

---------------------------------------------------------------------------
(* Inputs of the reconciliation *)

SeqsUpTo(S, n) == UNION {[1..k -> S] : k \in 0..n}

\* Portfolio::from_assets output without duplicates: ascending identifiers
StrictlySorted(assets) ==
    \A i \in 1..Len(assets) - 1 : assets[i].isin < assets[i + 1].isin

\* the holdings an identifier may have in the previous statement:
\* (valuation, shares) 100/10, 165/15, 50/0, a short position -50/-5 and a
\* note of 20
PreviousHoldings(isin) ==
    {Etf(isin, Decimal_new(100, 0), Decimal_new(10, 0)),
     Etf(isin, Decimal_new(165, 0), Decimal_new(15, 0)),
     Etf(isin, Decimal_new(50, 0), Decimal_new(0, 0)),
     Etf(isin, Decimal_new(-50, 0), Decimal_new(-5, 0)),
     MintosNote(isin, Decimal_new(20, 0))}

\* and in the current statement: 100/10, 110/10, 165/15, 100/3, 1.005/2.5
\* and 50/0
CurrentHoldings(isin) ==
    {Etf(isin, Decimal_new(100, 0), Decimal_new(10, 0)),
     Etf(isin, Decimal_new(110, 0), Decimal_new(10, 0)),
     Etf(isin, Decimal_new(165, 0), Decimal_new(15, 0)),
     Etf(isin, Decimal_new(100, 0), Decimal_new(3, 0)),
     Etf(isin, Decimal_new(1005, 3), Decimal_new(25, 1)),
     Etf(isin, Decimal_new(50, 0), Decimal_new(0, 0))}

CurrentPortfolios ==
    {assets \in SeqsUpTo(UNION {CurrentHoldings(isin) : isin \in 1..MaxPortfolio},
                         MaxPortfolio) : StrictlySorted(assets)}

PreviousPortfolios ==
    {assets \in SeqsUpTo(UNION {PreviousHoldings(isin) : isin \in 1..MaxPortfolio},
                         MaxPortfolio) : StrictlySorted(assets)}

\* raw asset lists as the parsers collect them: any order, and the same
\* identifier more than once with the same or another valuation
RawAssets ==
    {Etf(isin, Decimal_new(v, 0), Decimal_new(10, 0)) :
        isin \in 1..MaxPortfolio, v \in {100, 110}}

RawAssetLists == SeqsUpTo(RawAssets, MaxPortfolio)

\* asset sequences in any order, duplicates included, for the join alone
\* assets for the iterator on its own: two of them share an identifier and
\* differ in valuation, so that equal identifiers can be told apart
JoinInputAssets ==
    {Etf(isin, Decimal_new(100, 0), Decimal_new(10, 0)) : isin \in 1..MaxPortfolio}
        \cup {Etf(1, Decimal_new(110, 0), Decimal_new(10, 0))}

JoinInputs == SeqsUpTo(JoinInputAssets, MaxAssets)

JoinAssets == {Etf(isin, Decimal_new(100, 0), Decimal_new(10, 0)) : isin \in 1..MaxIsin}

AssetSeqs == SeqsUpTo(JoinAssets, MaxAssets)

---------------------------------------------------------------------------
(* Inputs of the codec: detail records, files found on disk, amounts *)

\* AssetWithValuation::modelo_720_registro of assets.rs: the baseline record
\* of an asset
assets_modelo_720_registro(a, ejercicio, nif, name) ==
    [Registro2Modelo720_new(ejercicio, nif, name, a.deposit_country) EXCEPT
        !.clave_representacion_valores = Some("A"),
        !.clave_identificacion = Some(1),
        !.identificacion_valores = Some(IsinText(a.isin)),
        !.clave_tipo_bien = Some(modelo_720_code(a).code),
        !.subclave_tipo_bien = Some(modelo_720_code(a).subcode),
        !.identificacion_entidad = Some(to_uppercase(a.description)),
        !.codigo_pais_entidad = Some(SubSeq(IsinText(a.isin), 1, 2)),
        !.origen_bien_derecho = Some("M")]

\* a record as Registro2Modelo720::new leaves it, with valuations under a cent
BaselineDetail ==
    [Registro2Modelo720_new(Declarant.ejercicio, Declarant.nif, Declarant.name,
                            <<"E", "S">>) EXCEPT
        !.valoracion1 = Decimal_new(4, 3),
        !.valoracion2 = Decimal_new(-5, 3)]

\* an acquired fund: subcode 0, ten shares, 100.00, no extinction date
AcquiredDetail ==
    [assets_modelo_720_registro(Etf(1, Decimal_new(100, 0), Decimal_new(10, 0)),
                                Declarant.ejercicio, Declarant.nif, Declarant.name) EXCEPT
        !.origen_bien_derecho = Some("A"),
        !.fecha_incorporacion = Some(NaiveDate(2023, 1, 15)),
        !.numero_valores = Some(Decimal_new(10, 0)),
        !.valoracion1 = Decimal_new(10000, 2)]

\* a ceased note held under another title, with a negative valuation
CeasedDetail ==
    [assets_modelo_720_registro(MintosNote(2, Decimal_new(25, 1)),
                                Declarant.ejercicio, Declarant.nif, Declarant.name) EXCEPT
        !.tipo_titularidad = Otros(<<"a", "b", "c">>),
        !.origen_bien_derecho = Some("C"),
        !.fecha_extincion = Some(NaiveDate(2024, 2, 29)),
        !.numero_valores = Some(Decimal_new(25, 1)),
        !.valoracion1 = Decimal_new(-12345, 3),
        !.valoracion2 = Decimal_new(5, 3)]

Details == {BaselineDetail, AcquiredDetail, CeasedDetail}

DetailLists == SeqsUpTo(Details, MaxDetails)

\* a second declarant, of another year
OtherDeclarant ==
    [ejercicio |-> 2022,
     nif       |-> <<"8", "7", "6", "5", "4", "3", "2", "1", "X">>,
     name      |-> <<"E", "V", "A">>,
     phone     |-> 700000000]

\* the ceased note as the second declarant declares it
OtherDetails ==
    {[CeasedDetail EXCEPT !.ejercicio = OtherDeclarant.ejercicio,
                          !.nif_declarante = OtherDeclarant.nif,
                          !.nif_declarado = OtherDeclarant.nif,
                          !.nombre = OtherDeclarant.name]}

\* the detail lists of a second declaration, built to be joined to the first
OtherDetailLists == SeqsUpTo(OtherDetails, 1)

\* the declaration Modelo720::new builds for the second declarant
BuildOther(details) ==
    Modelo720_new(OtherDeclarant.ejercicio, OtherDeclarant.nif, OtherDeclarant.name,
                  int_to_string(OtherDeclarant.phone), details)

\* the declaration Modelo720::new builds for the declarant
Build(details) ==
    Modelo720_new(Declarant.ejercicio, Declarant.nif, Declarant.name,
                  int_to_string(Declarant.phone), details)

\* declarations whose header was edited after they were written: the count
\* and the totals no longer agree with the details
EditedDeclarations ==
    { [Build(<<AcquiredDetail>>) EXCEPT
          !.header.numero_registros_tipo2 = 2,
          !.header.suma_valoracion1 = Decimal_new(500, 2)],
      [Build(<<>>) EXCEPT
          !.header.numero_registros_tipo2 = 3,
          !.header.suma_valoracion1 = Decimal_new(300, 2),
          !.header.suma_valoracion2 = Decimal_new(-1, 2)] }

\* the file of a declaration of one detail, as save_to_file writes it
WrittenFile == save_to_file(Build(<<AcquiredDetail>>))

\* that file after an edit that leaves it ill-formed: the last character of
\* the detail line replaced by a line break (a line of 499 bytes), a
\* character added to the detail line (501 bytes), the detail line cut in the
\* middle, a letter in the ejercicio of the detail, and a letter in the
\* ejercicio of the header
DamagedFiles ==
    { SubSeq(WrittenFile, 1, Len(WrittenFile) - 1) \o LineBreak,
      WrittenFile \o <<"X">>,
      SubSeq(WrittenFile, 1, RecordWidth + 1 + RecordWidth \div 2),
      [WrittenFile EXCEPT ![RecordWidth + 1 + 5] = "X"],
      [WrittenFile EXCEPT ![5] = "X"] }

\* the files found at a path before the program writes any
FilesOnDisk == {save_to_file(d) : d \in EditedDeclarations} \union DamagedFiles

\* the field widths a Modelo720Number is given: those of the two records
\* (15 and 18) and narrow ones
Widths == {2, 3, 4, 5, 15, 18}

\* the amounts handed to Modelo720Number: every sign, mantissa and scale
\* within the bounds (zero carries no sign)
Amounts ==
    {[neg |-> s, m |-> m, e |-> e] :
        s \in BOOLEAN, m \in 0..MaxMantissa, e \in 0..MaxScale} \
    {[neg |-> TRUE, m |-> 0, e |-> e] : e \in 0..MaxScale}

\* the years of the dates handed to Modelo720Date: a century year that is
\* no leap year, one that is, a common year and a leap year
Years == {1900, 2000, 2023, 2024}

\* the values of a Modelo720Date: no date, or a date of the calendar
Dates ==
    {None} \union
    {Some(NaiveDate(y, m, d)) : <<y, m, d>> \in
        {t \in Years \X (1..12) \X (1..31) : t[3] <= days_in_month(t[1], t[2])}}

\* the characters of the texts handed to the visitor of Modelo720Number:
\* digits, the signs, the decimal point, a space and a letter
NumberAlphabet == {"0", "7", "N", " ", "-", "+", ".", "A"}

\* the texts handed to the visitor, and the widths of its type: a text as
\* long as the width carries a sign character, a shorter one carries none
NumberTexts == SeqsUpTo(NumberAlphabet, MaxText) \ {<<>>}

VisitWidths == {MaxText - 1, MaxText}

\* -Decimal::ZERO and the like: the zeros Neg leaves with the negative sign
NegativeZeros == {Decimal_neg(Decimal_new(0, e)) : e \in 0..MaxScale}

---------------------------------------------------------------------------
(* compute_modelo720 as a state machine: one step per item of the iterator
   chain, then the collect and Modelo720::new *)

Start(cur, prev) ==
    /\ current = cur
    /\ previous = prev
    /\ iterator = FullJoinIterator_new(cur, prev)
    /\ yielded = <<>>
    /\ emitted = <<>>
    /\ entries = <<>>
    /\ pc = "joining"
    /\ modelo720 = None

\* no declaration file is at hand and no codec function is called on its own
NoFile ==
    /\ declaration = None
    /\ other = None
    /\ file = None
    /\ op = "start"
    /\ provenance = "none"
    /\ input = None
    /\ output = None
    /\ decoded = None

\* no reconciliation is run
Idle ==
    /\ current = <<>>
    /\ previous = <<>>
    /\ iterator = FullJoinIterator_new(<<>>, <<>>)
    /\ yielded = <<>>
    /\ emitted = <<>>
    /\ entries = <<>>
    /\ modelo720 = None

InitReconcile ==
    /\ NoFile
    /\ \E cur \in CurrentPortfolios, prev \in PreviousPortfolios : Start(cur, prev)

InitJoin ==
    /\ NoFile
    /\ \E cur \in AssetSeqs, prev \in AssetSeqs :
        /\ Len(cur) + Len(prev) <= MaxAssets
        /\ Start(cur, prev)

\* the chain's next returns an item: FullJoinIterator::next, the two
\* closures, and the push of the records (or the panic of the second closure)
ComputeStep ==
    /\ pc = "joining"
    /\ LET n == FullJoinIterator_next(iterator)
       IN  /\ is_some(n.item)
           /\ iterator' = n.self
           /\ yielded' = Append(yielded, unwrap(n.item))
           /\ LET x == expand(to_PortfolioChange(unwrap(n.item)),
                              Declarant.ejercicio, Declarant.nif, Declarant.name)
              IN  /\ emitted' = Append(emitted, Len(x.registros))
                  /\ entries' = IF x.panic THEN entries ELSE entries \o x.registros
                  /\ pc' = IF x.panic THEN "panicked" ELSE "joining"
    /\ UNCHANGED <<current, previous, modelo720, fileVars, pureVars>>

\* the chain's next returns None: the collect ends and the declaration is built
ComputeFinish ==
    /\ pc = "joining"
    /\ LET n == FullJoinIterator_next(iterator)
       IN  /\ ~is_some(n.item)
           /\ iterator' = n.self
    /\ modelo720' = Some(main_Modelo720_new(Declarant.ejercicio, Declarant.nif,
                                            Declarant.name, Declarant.phone, entries))
    /\ pc' = "done"
    /\ UNCHANGED <<current, previous, yielded, emitted, entries, fileVars, pureVars>>

NextReconcile == ComputeStep \/ ComputeFinish

SpecReconcile == InitReconcile /\ [][NextReconcile]_vars

SpecJoin == InitJoin /\ [][NextReconcile]_vars

\* The join iterator driven on its own, as collect drives it and beyond:
\* next is called until it returns None, and then some more times.
InitIterator ==
    /\ NoFile
    /\ \E cur \in JoinInputs, prev \in JoinInputs :
        /\ Len(cur) + Len(prev) <= MaxAssets
        /\ Start(cur, prev)

\* a call of next before it has returned None: the item is collected
IteratorNext ==
    /\ pc = "joining"
    /\ LET n == FullJoinIterator_next(iterator)
       IN  /\ iterator' = n.self
           /\ yielded' = IF is_some(n.item) THEN Append(yielded, unwrap(n.item))
                                            ELSE yielded
           /\ pc' = IF is_some(n.item) THEN "joining" ELSE "exhausted"
    /\ UNCHANGED <<current, previous, emitted, entries, modelo720, fileVars, pureVars>>

\* a call of next after it has returned None: what it returns is recorded
IteratorNextAgain ==
    /\ pc = "exhausted"
    /\ Len(output) < MaxCalls
    /\ LET n == FullJoinIterator_next(iterator)
       IN  /\ iterator' = n.self
           /\ output' = Append(output, n.item)
    /\ UNCHANGED <<current, previous, yielded, emitted, entries, modelo720, pc,
                   fileVars, input, decoded>>

NextIterator == IteratorNext \/ IteratorNextAgain

\* the caller keeps calling next: a for loop or collect never pauses forever
SpecIterator == InitIterator /\ [][NextIterator]_vars /\ WF_vars(NextIterator)

---------------------------------------------------------------------------
(* The declaration file: Modelo720::new, save_to_file, from_path, concat *)

InitFile ==
    /\ Idle
    /\ pc = "ready"
    /\ declaration = None
    /\ other = None
    /\ file \in {None} \cup {Some(f) : f \in FilesOnDisk}
    /\ op = "start"
    /\ provenance = "none"
    /\ input = None
    /\ output = None
    /\ decoded = None

\* Modelo720::new on a list of details
New(details) ==
    /\ pc = "ready"
    /\ declaration = None
    /\ declaration' = Some(Build(details))
    /\ provenance' = "new"
    /\ op' = "new"
    /\ UNCHANGED <<joinData, pc, other, file, pureVars>>

\* save_to_file(path): the file holds the bytes of the declaration
SaveToFile ==
    /\ pc = "ready"
    /\ is_some(declaration)
    /\ file' = Some(save_to_file(unwrap(declaration)))
    /\ op' = "save_to_file"
    /\ UNCHANGED <<joinData, pc, declaration, other, provenance, pureVars>>

\* from_path(path); File::open fails on a missing file and the unwrap panics
read_path == IF is_some(file) THEN from_path(unwrap(file)) ELSE Err

\* let a = Modelo720::from_path(left)
FromPathLeft ==
    /\ pc = "ready"
    /\ declaration = None
    /\ declaration' = IF read_path.ok THEN Some(read_path.value) ELSE None
    /\ pc' = IF read_path.ok THEN "ready" ELSE "panicked"
    /\ provenance' = IF read_path.ok THEN "from_path" ELSE provenance
    /\ op' = "from_path"
    /\ UNCHANGED <<joinData, other, file, pureVars>>

\* let mut b = Modelo720::from_path(right)
FromPathRight ==
    /\ pc = "ready"
    /\ is_some(declaration)
    /\ other = None
    /\ other' = IF read_path.ok THEN Some(read_path.value) ELSE None
    /\ pc' = IF read_path.ok THEN "ready" ELSE "panicked"
    /\ op' = "from_path"
    /\ UNCHANGED <<joinData, declaration, provenance, file, pureVars>>

\* Modelo720::new for the declaration that is handed to concat
NewOther(details) ==
    /\ pc = "ready"
    /\ is_some(declaration)
    /\ other = None
    /\ other' = Some(BuildOther(details))
    /\ op' = "new"
    /\ UNCHANGED <<joinData, pc, declaration, provenance, file, pureVars>>

\* self.concat(other): other is moved into the call
Concat ==
    /\ pc = "ready"
    /\ is_some(declaration)
    /\ is_some(other)
    /\ Len(unwrap(declaration).entries) + Len(unwrap(other).entries) <= MaxEntries
    /\ unwrap(declaration).header.numero_registros_tipo2
          + unwrap(other).header.numero_registros_tipo2 <= MaxRegistros
    /\ declaration' = Some(Modelo720_concat(unwrap(declaration), unwrap(other)))
    /\ other' = None
    /\ provenance' = "concat"
    /\ op' = "concat"
    /\ UNCHANGED <<joinData, pc, file, pureVars>>

NextFile ==
    \/ \E details \in DetailLists : New(details)
    \/ \E details \in OtherDetailLists : NewOther(details)
    \/ SaveToFile
    \/ FromPathLeft
    \/ FromPathRight
    \/ Concat

SpecFile == InitFile /\ [][NextFile]_vars

---------------------------------------------------------------------------
(* Modelo720Number on its own: one amount, one width, one encoding *)

InitNumber ==
    /\ Idle
    /\ pc = "ready"
    /\ declaration = None
    /\ other = None
    /\ file = None
    /\ op = "start"
    /\ provenance = "none"
    /\ \E N \in Widths, d \in Amounts : input = Some([N |-> N, number |-> d])
    /\ output = None
    /\ decoded = None

\* Modelo720Number<N>(number).serialize(..)
Serialize ==
    /\ is_some(input)
    /\ output = None
    /\ output' = Some(Modelo720Number_serialize(unwrap(input).N, unwrap(input).number))
    /\ UNCHANGED <<joinVars, fileVars, input, decoded>>

\* Modelo720Number::<N>::deserialize of the text just written: the visitor
\* is handed the N characters, or what is left of them without the blanks
Deserialize ==
    /\ is_some(output)
    /\ decoded = None
    /\ \E v \in {unwrap(output), trim(unwrap(output))} :
          decoded' = Some(Modelo720Number_visit_str(unwrap(input).N, v))
    /\ UNCHANGED <<joinVars, fileVars, input, output>>

NextNumber ==
    \/ Serialize
    \/ Deserialize

\* Modelo720NumberVisitor on its own: one text, one width
InitVisit ==
    /\ Idle
    /\ pc = "ready"
    /\ declaration = None
    /\ other = None
    /\ file = None
    /\ op = "start"
    /\ provenance = "none"
    /\ \E N \in VisitWidths, v \in NumberTexts : input = Some([N |-> N, v |-> v])
    /\ output = None
    /\ decoded = None

\* Modelo720NumberVisitor::<N>.visit_str(v)
VisitStr ==
    /\ is_some(input)
    /\ output = None
    /\ output' = Some(Modelo720Number_visit_str(unwrap(input).N, unwrap(input).v))
    /\ UNCHANGED <<joinVars, fileVars, input, decoded>>

NextVisit == VisitStr

SpecVisit == InitVisit /\ [][NextVisit]_vars

SpecNumber == InitNumber /\ [][NextNumber]_vars

\* Modelo720Number given any Decimal a caller can build, a zero that carries
\* the negative sign included
InitSignedNumber ==
    /\ Idle
    /\ pc = "ready"
    /\ declaration = None
    /\ other = None
    /\ file = None
    /\ op = "start"
    /\ provenance = "none"
    /\ \E N \in Widths, d \in Amounts \union NegativeZeros :
          input = Some([N |-> N, number |-> d])
    /\ output = None
    /\ decoded = None

SpecSignedNumber == InitSignedNumber /\ [][NextNumber]_vars

---------------------------------------------------------------------------
(* Portfolio on its own: two raw asset lists, each made a portfolio by
   from_assets, and the two portfolios merged *)

InitPortfolio ==
    /\ Idle
    /\ pc = "ready"
    /\ declaration = None
    /\ other = None
    /\ file = None
    /\ op = "start"
    /\ provenance = "none"
    /\ \E a \in RawAssetLists, b \in RawAssetLists : input = Some(<<a, b>>)
    /\ output = None
    /\ decoded = None

\* Portfolio::from_assets on each of the two lists
FromAssets ==
    /\ is_some(input)
    /\ output = None
    /\ output' = Some(<<Portfolio_from_assets(unwrap(input)[1]),
                        Portfolio_from_assets(unwrap(input)[2])>>)
    /\ UNCHANGED <<joinVars, fileVars, input, decoded>>

\* self.merge(other) on the two portfolios
Merge ==
    /\ is_some(output)
    /\ decoded = None
    /\ decoded' = Some(Portfolio_merge(unwrap(output)[1], unwrap(output)[2]))
    /\ UNCHANGED <<joinVars, fileVars, input, output>>

NextPortfolio ==
    \/ FromAssets
    \/ Merge

SpecPortfolio == InitPortfolio /\ [][NextPortfolio]_vars

---------------------------------------------------------------------------
(* Modelo720Date on its own: one date or none, written in the field of
   fecha_incorporacion and read back *)

InitDate ==
    /\ Idle
    /\ pc = "ready"
    /\ declaration = None
    /\ other = None
    /\ file = None
    /\ op = "start"
    /\ provenance = "none"
    /\ \E date \in Dates : input = Some(date)
    /\ output = None
    /\ decoded = None

\* the field of a detail that holds a Modelo720Date
DateField == field_of(Registro2Modelo720_fields, "fecha_incorporacion")

\* Modelo720Date(date).serialize(..), laid in its field by the writer
SerializeDate ==
    /\ is_some(input)
    /\ output = None
    /\ output' = Some(write_field(Modelo720Date_serialize(unwrap(input)), DateField))
    /\ UNCHANGED <<joinVars, fileVars, input, decoded>>

\* Modelo720Date::deserialize of the bytes of the field
DeserializeDate ==
    /\ is_some(output)
    /\ decoded = None
    /\ decoded' = Some(deserialize(DateField.type, unwrap(output),
                                   type_parameter(DateField)))
    /\ UNCHANGED <<joinVars, fileVars, input, output>>

NextDate ==
    \/ SerializeDate
    \/ DeserializeDate

SpecDate == InitDate /\ [][NextDate]_vars

\* Modelo720Titularidad on its own: a value to write, or the text of a
\* field handed to the visitor
TitularidadValues ==
    {Titularidad(Titularidades[i]) : i \in 1..7}
        \cup {Otros(what) : what \in SeqsUpTo({"a", "B"}, MaxText - 1)}

TitularidadAlphabet == {"1", "7", "8", "9", "a", " ", "Ñ"}

TitularidadTexts == SeqsUpTo(TitularidadAlphabet, MaxText)

InitTitularidad ==
    /\ Idle
    /\ pc = "ready"
    /\ declaration = None
    /\ other = None
    /\ file = None
    /\ op = "start"
    /\ provenance = "none"
    /\ \/ /\ \E t \in TitularidadValues : input = Some(t)
          /\ output = None
       \/ /\ input = None
          /\ \E v \in TitularidadTexts : output = Some(v)
    /\ decoded = None

\* Modelo720Titularidad::serialize
SerializeTitularidad ==
    /\ is_some(input)
    /\ output = None
    /\ output' = Some(Modelo720Titularidad_serialize(unwrap(input)))
    /\ UNCHANGED <<joinVars, fileVars, input, decoded>>

\* Modelo720TitularidadVisitor.visit_str(v)
VisitTitularidad ==
    /\ is_some(output)
    /\ decoded = None
    /\ decoded' = Some(Modelo720Titularidad_visit_str(unwrap(output)))
    /\ UNCHANGED <<joinVars, fileVars, input, output>>

NextTitularidad ==
    \/ SerializeTitularidad
    \/ VisitTitularidad

SpecTitularidad == InitTitularidad /\ [][NextTitularidad]_vars

---------------------------------------------------------------------------
(* Vocabulary of the properties *)

RECURSIVE SumSeq(_)
SumSeq(ns) == IF ns = <<>> THEN 0 ELSE Head(ns) + SumSeq(Tail(ns))

\* the records the k-th join result put into entries
RecordsOf(k) ==
    LET off == SumSeq(SubSeq(emitted, 1, k - 1))
    IN  SubSeq(entries, off + 1, off + emitted[k])

\* the identifier a join result reports
JoinId(result) ==
    IF result.tag = "OuterRight" THEN unwrap(result.right).isin
    ELSE unwrap(result.left).isin

Ids(assets) == {assets[i].isin : i \in 1..Len(assets)}

\* q * p * 100 rounded to an integer, half away from zero
HundredfoldRounded(q, p) ==
    LET n == q.m * p.m * 100
        d == Pow10(q.e + p.e)
        r == (2 * n + d) \div (2 * d)
    IN  IF q.neg # p.neg THEN -r ELSE r

One == [neg |-> FALSE, m |-> 1, e |-> 0]

\* the price the reconciliation uses for a pair: new.valuation / new.shares
PriceOf(new) == Decimal_div(valuation(new), shares(new))

Positive(d) == ~d.neg /\ d.m > 0

\* x + y = z, numerically
SumsTo(x, y, z) == Decimal_cmp(Decimal_add(x, y), z) = 0

IsEtf(a, val, sh) ==
    /\ a.kind = "Etf"
    /\ Decimal_cmp(a.euro_valuation, val) = 0
    /\ Decimal_cmp(a.shares, sh) = 0

\* the baseline fields modelo_720_registro takes from asset a
BuiltFrom(registro, a) ==
    /\ registro.identificacion_valores = Some(IsinText(a.isin))
    /\ registro.codigo_pais = a.deposit_country
    /\ registro.clave_tipo_bien = Some(IF a.kind = "Etf" THEN "I" ELSE "V")
    /\ registro.subclave_tipo_bien = Some(IF a.kind = "Etf" THEN 0 ELSE 2)
    /\ registro.clave_identificacion = Some(1)
    /\ registro.clave_representacion_valores = Some("A")

InnerAt(k) == k \in 1..Len(yielded) /\ yielded[k].tag = "Inner"

NewAt(k) == unwrap(yielded[k].left)

OldAt(k) == unwrap(yielded[k].right)

---------------------------------------------------------------------------
(* C1 *)

\* C1: for sorted, duplicate-free current and previous, the join results
\* have strictly increasing identifiers, and once next has returned None the
\* identifiers yielded are exactly those of current and previous together.
C1_JoinIncreasingAndCovering ==
    (StrictlySorted(current) /\ StrictlySorted(previous)) =>
        /\ \A i, j \in 1..Len(yielded) :
              i < j => JoinId(yielded[i]) < JoinId(yielded[j])
        /\ pc = "done" =>
              {JoinId(yielded[i]) : i \in 1..Len(yielded)} = Ids(current) \cup Ids(previous)

C1_Witness ==
    /\ pc = "done"
    /\ StrictlySorted(current) /\ StrictlySorted(previous)
    /\ Len(current) = 2 /\ Len(previous) = 2
    /\ \E i, j, k \in 1..Len(yielded) :
          /\ yielded[i].tag = "OuterLeft"
          /\ yielded[j].tag = "Inner"
          /\ yielded[k].tag = "OuterRight"

---------------------------------------------------------------------------
(* C5 - C9: the expansion of each classification *)

Grew(k) == InnerAt(k) /\ Decimal_cmp(shares(NewAt(k)), shares(OldAt(k))) = 1

Shrank(k) ==
    /\ InnerAt(k)
    /\ Positive(shares(NewAt(k)))
    /\ Decimal_cmp(shares(NewAt(k)), shares(OldAt(k))) = -1

Unchanged(k) == InnerAt(k) /\ Decimal_cmp(shares(NewAt(k)), shares(OldAt(k))) = 0

\* the current asset of the pair holds no shares: its price cannot be computed
NoShares(k) == shares(NewAt(k)).m = 0

\* the two records of C5 for the k-th join result
C5_TwoRecords(k) ==
    LET rs == RecordsOf(k)
        new == NewAt(k)
        old == OldAt(k)
    IN  /\ Len(rs) = 2
        /\ rs[1].origen_bien_derecho = Some("M")
        /\ is_some(rs[1].numero_valores)
        /\ Decimal_cmp(unwrap(rs[1].numero_valores), shares(old)) = 0
        /\ rs[1].valoracion1 = Some(HundredfoldRounded(shares(old), PriceOf(new)))
        /\ rs[2].origen_bien_derecho = Some("A")
        /\ is_some(rs[2].numero_valores)
        /\ SumsTo(unwrap(rs[2].numero_valores), shares(old), shares(new))
        /\ rs[2].valoracion1 =
              Some(HundredfoldRounded(unwrap(rs[2].numero_valores), PriceOf(new)))
        /\ (IsEtf(new, Decimal_new(165, 0), Decimal_new(15, 0))
            /\ IsEtf(old, Decimal_new(100, 0), Decimal_new(10, 0)))
           => (rs[1].valoracion1 = Some(11000) /\ rs[2].valoracion1 = Some(5500))

\* C5 as claimed: a Changed pair with new.shares > old.shares gives exactly
\* two records: Maintained with shares old.shares and valuation1
\* round(old.shares * price * 100), then Acquired with shares
\* new.shares - old.shares and valuation1 round(that * price * 100), where
\* price = new.valuation / new.shares; 15 shares worth 165 against 10
\* previous shares give 11000 and 5500.
C5_AsClaimed ==
    \A k \in 1..Len(yielded) :
        Grew(k) => (Len(RecordsOf(k)) = 2 /\ C5_TwoRecords(k))

\* C5, amended: the same for a Changed pair with new.shares > old.shares and
\* new.shares # 0 (a current asset of zero shares against a short position
\* ends the reconciliation in a panic instead).
C5_ChangedMore ==
    \A k \in 1..Len(yielded) :
        (Grew(k) /\ ~NoShares(k)) => C5_TwoRecords(k)

C5_Witness ==
    /\ pc = "done"
    /\ \E k \in 1..Len(yielded) :
          /\ Grew(k)
          /\ IsEtf(NewAt(k), Decimal_new(165, 0), Decimal_new(15, 0))
          /\ IsEtf(OldAt(k), Decimal_new(100, 0), Decimal_new(10, 0))
          /\ Len(RecordsOf(k)) = 2

C7_OneRecord(k) ==
    LET rs == RecordsOf(k)
    IN  /\ Len(rs) = 1
        /\ rs[1].origen_bien_derecho = Some("M")
        /\ BuiltFrom(rs[1], NewAt(k))
        /\ rs[1].valoracion1 = None

C8_NewAcquisition ==
    \A k \in 1..Len(yielded) :
        yielded[k].tag = "OuterLeft" =>
            LET rs == RecordsOf(k)
                a == unwrap(yielded[k].left)
            IN  /\ Len(rs) = 1
                /\ rs[1].origen_bien_derecho = Some("A")
                /\ is_some(rs[1].numero_valores)
                /\ Decimal_cmp(unwrap(rs[1].numero_valores), shares(a)) = 0
                /\ rs[1].valoracion1 = Some(HundredfoldRounded(valuation(a), One))
                /\ IsEtf(a, Decimal_new(100, 0), Decimal_new(10, 0))
                   => /\ unwrap(rs[1].numero_valores) = Decimal_new(10, 0)
                      /\ rs[1].valoracion1 = Some(10000)

C8_Witness ==
    /\ pc = "done"
    /\ \E k \in 1..Len(yielded) :
          /\ yielded[k].tag = "OuterLeft"
          /\ IsEtf(unwrap(yielded[k].left), Decimal_new(100, 0), Decimal_new(10, 0))
          /\ Len(RecordsOf(k)) = 1

\* C9: an asset classified Sold gives exactly one record, Ceased, with
\* shares old.shares and both valuations unset, so that it adds nothing to
\* the header totals: a declaration of Sold records alone has totals 0.
C9_Sold ==
    /\ \A k \in 1..Len(yielded) :
          yielded[k].tag = "OuterRight" =>
              LET rs == RecordsOf(k)
                  old == unwrap(yielded[k].right)
              IN  /\ Len(rs) = 1
                  /\ rs[1].origen_bien_derecho = Some("C")
                  /\ is_some(rs[1].numero_valores)
                  /\ Decimal_cmp(unwrap(rs[1].numero_valores), shares(old)) = 0
                  /\ rs[1].valoracion1 = None
                  /\ rs[1].valoracion2 = None
    /\ (pc = "done" /\ current = <<>>) =>
          /\ unwrap(modelo720).header.suma_valoracion1 = 0
          /\ unwrap(modelo720).header.suma_valoracion2 = 0

C9_Witness ==
    /\ pc = "done"
    /\ current = <<>>
    /\ Len(previous) = 2
    /\ \E k \in 1..Len(yielded) :
          /\ yielded[k].tag = "OuterRight"
          /\ unwrap(yielded[k].right).kind = "MintosNote"
          /\ Len(RecordsOf(k)) = 1
    /\ unwrap(modelo720).header.numero_registros_tipo2 = 2

---------------------------------------------------------------------------
(* Vocabulary of the properties of the codec *)

\* the amount d in cents, rounded half away from zero
Cents(d) ==
    LET n == d.m * 100
        f == Pow10(d.e)
        r == (2 * n + f) \div (2 * f)
    IN  IF d.neg THEN -r ELSE r

\* the cents of column 1 and of column 2 of a list of details
CentsOfColumn1(details) == [i \in 1..Len(details) |-> Cents(details[i].valoracion1)]

CentsOfColumn2(details) == [i \in 1..Len(details) |-> Cents(details[i].valoracion2)]

\* the amount d is exactly c cents
IsCents(d, c) == Scaled(d, Max(d.e, 2)) = c * Pow10(Max(d.e, 2) - 2)

\* x + y = z, by value
AddsUp(x, y, z) ==
    LET s == Max(Max(x.e, y.e), z.e)
    IN  Scaled(x, s) + Scaled(y, s) = Scaled(z, s)

\* two values of a field are equal; amounts and share counts are compared by
\* value, whatever their scale
SameValue(type, x, y) ==
    CASE type = "Modelo720Number" -> Decimal_eq(x, y)
      [] type = "Option<Shares>" ->
            /\ is_some(x) = is_some(y)
            /\ is_some(x) => Decimal_eq(unwrap(x), unwrap(y))
      [] OTHER -> x = y

SameRecord(fields, x, y) ==
    \A i \in 1..Len(fields) : SameValue(fields[i].type, x[fields[i].name], y[fields[i].name])

SameDeclaration(x, y) ==
    /\ SameRecord(Registro1Modelo720_fields, x.header, y.header)
    /\ Len(x.entries) = Len(y.entries)
    /\ \A i \in 1..Len(x.entries) :
          SameRecord(Registro2Modelo720_fields, x.entries[i], y.entries[i])

\* the file holds what save_to_file writes for the declaration held, which
\* Modelo720::new built, and from_path has just read it
ReadBackWhatWasBuilt ==
    /\ op = "from_path"
    /\ provenance = "new"
    /\ file = Some(save_to_file(unwrap(declaration)))

---------------------------------------------------------------------------
(* Properties of the codec *)

\* C2: file round-trip.  Reading back with from_path the bytes save_to_file
\* wrote for a declaration built by Modelo720::new succeeds and yields a
\* header equal field by field to the built header and the same details in
\* the same order.
C2_RoundTrip ==
    ReadBackWhatWasBuilt =>
        /\ pc = "ready"
        /\ is_some(other)
        /\ SameDeclaration(unwrap(other), unwrap(declaration))

\* C3: the declaration Modelo720::new builds has a header count equal to the
\* number of details and, per column, a total equal to the sum of the
\* details' valuations each rounded to cents half away from zero.
C3_BuildTotals ==
    provenance = "new" =>
        LET built == unwrap(declaration)
        IN  /\ built.header.numero_registros_tipo2 = Len(built.entries)
            /\ IsCents(built.header.suma_valoracion1, SumSeq(CentsOfColumn1(built.entries)))
            /\ IsCents(built.header.suma_valoracion2, SumSeq(CentsOfColumn2(built.entries)))

\* two details under a cent whose sum rounds to another amount than the sum
\* of their rounded values, in both columns, one of them negative
C3_Witness ==
    /\ provenance = "new"
    /\ LET built == unwrap(declaration)
           raw1 == Modelo720Number_sum([i \in 1..Len(built.entries) |->
                                           built.entries[i].valoracion1])
           raw2 == Modelo720Number_sum([i \in 1..Len(built.entries) |->
                                           built.entries[i].valoracion2])
       IN  /\ Len(built.entries) = 2
           /\ Cents(raw1) # SumSeq(CentsOfColumn1(built.entries))
           /\ Cents(raw2) # SumSeq(CentsOfColumn2(built.entries))
           /\ Cents(raw2) < 0

\* C4: a concat step leaves a's details followed by b's, a header count of
\* a's count plus b's count and totals of a's totals plus b's totals, every
\* other header field as in a: the header is computed from the two headers,
\* whatever the details are.
C4_ConcatAddsHeaders ==
    [][op' = "concat" =>
        LET a == unwrap(declaration)
            b == unwrap(other)
            result == unwrap(declaration')
        IN  /\ result.entries = a.entries \o b.entries
            /\ result.header.numero_registros_tipo2 =
                  a.header.numero_registros_tipo2 + b.header.numero_registros_tipo2
            /\ AddsUp(a.header.suma_valoracion1, b.header.suma_valoracion1,
                      result.header.suma_valoracion1)
            /\ AddsUp(a.header.suma_valoracion2, b.header.suma_valoracion2,
                      result.header.suma_valoracion2)
            /\ \A name \in DOMAIN a.header \ {"numero_registros_tipo2",
                                              "suma_valoracion1", "suma_valoracion2"} :
                  result.header[name] = a.header[name]
    ]_vars

\* a built declaration of one detail joined with a file whose header says
\* two details worth 5.00 and holds one worth 100.00: the result says three
\* details worth 5.00 and holds two
C4_Witness ==
    /\ op = "concat"
    /\ LET result == unwrap(declaration)
       IN  /\ Len(result.entries) = 2
           /\ result.entries[1] = BaselineDetail
           /\ Decimal_eq(result.entries[2].valoracion1, Decimal_new(100, 0))
           /\ result.header.numero_registros_tipo2 = 3
           /\ IsCents(result.header.suma_valoracion1, 500)

\* the encoding's input and result
EncodedAmount == unwrap(input).number

EncodedWidth == unwrap(input).N

\* the cents of the amount have at most W - 1 digits
FitsWidth == Len(digits_of(Abs(Cents(EncodedAmount)))) <= EncodedWidth - 1

AtMostTwoPlaces == IsCents(EncodedAmount, Cents(EncodedAmount))

\* C11: for every amount of at most two decimal places, positive or
\* negative, whose cents fit in W - 1 digits, reading back the W characters
\* written for it succeeds and gives an amount numerically equal to it.
C11_NumberRoundTrip ==
    (is_some(decoded) /\ FitsWidth /\ AtMostTwoPlaces) =>
        /\ unwrap(decoded).ok
        /\ Decimal_eq(unwrap(decoded).value, EncodedAmount)

\* -0.17 in a field of 4 characters is written N017 and read back as -0.17
C11_Witness ==
    /\ input = Some([N |-> 4, number |-> [neg |-> TRUE, m |-> 17, e |-> 2]])
    /\ output = Some(<<"N", "0", "1", "7">>)
    /\ is_some(decoded)
    /\ unwrap(decoded).ok
    /\ Decimal_eq(unwrap(decoded).value, Decimal_new(-17, 2))

\* C12: an amount whose cents round to zero is written with the space sign
\* and zeros only, also when it carries the negative sign (-0.00, -0.004);
\* 'N' is written only for an amount whose rounded cents are below zero.
C12_ZeroHasNoSign ==
    (is_some(output) /\ FitsWidth) =>
        LET text == unwrap(output)
        IN  /\ Cents(EncodedAmount) = 0 =>
                  text = <<" ">> \o repeat("0", EncodedWidth - 1)
            /\ text[1] = "N" => Cents(EncodedAmount) < 0

\* C13: the file written for a declaration of n details is the header line,
\* then the detail lines in the order of the list, every line of 500 bytes
\* and every line, the last one too, followed by a line break: 501 * (n + 1)
\* bytes ending in a line break.
C13_EveryLineTerminated ==
    op = "save_to_file" =>
        LET bytes == unwrap(file)
            self == unwrap(declaration)
            n == Len(self.entries)
            start(k) == (RecordWidth + 1) * k
            line(k) == SubSeq(bytes, start(k) + 1, start(k) + RecordWidth)
        IN  /\ Len(bytes) = (RecordWidth + 1) * (n + 1)
            /\ bytes[Len(bytes)] = "\n"
            /\ line(0) = Registro1Modelo720_serialize(self.header)
            /\ \A k \in 1..n : line(k) = Registro2Modelo720_serialize(self.entries[k])
            /\ \A k \in 0..n : bytes[start(k) + RecordWidth + 1] = "\n"

\* the lines of a file: what stands between its line breaks
RECURSIVE LinesOf(_)
LinesOf(bytes) ==
    LET breaks == {i \in 1..Len(bytes) : bytes[i] = "\n"}
        first == CHOOSE i \in breaks : \A j \in breaks : i <= j
    IN  IF bytes = <<>> THEN <<>>
        ELSE IF breaks = {} THEN <<bytes>>
        ELSE <<SubSeq(bytes, 1, first - 1)>> \o LinesOf(SubSeq(bytes, first + 1, Len(bytes)))

\* the declaration the last from_path returned
ReadDeclaration == IF is_some(other) THEN unwrap(other) ELSE unwrap(declaration)

\* C14: reading a file fails as a whole when a line is not exactly 500
\* bytes long or a field of a line does not decode: a declaration is
\* returned only for a file whose lines are all 500 bytes long and all
\* decode, and it holds every detail line of the file.
C14_FailFast ==
    (op = "from_path" /\ pc = "ready") =>
        LET lines == LinesOf(unwrap(file))
        IN  /\ lines # <<>>
            /\ \A k \in 1..Len(lines) : Len(lines[k]) = RecordWidth
            /\ Registro1Modelo720_from_bytes(lines[1]).ok
            /\ \A k \in 2..Len(lines) : Registro2Modelo720_from_bytes(lines[k]).ok
            /\ Len(ReadDeclaration.entries) = Len(lines) - 1

\* the part of C14 about fields: a file read without failure has a header
\* and details that all decode, none left out
C14_NoPartialDeclaration ==
    (op = "from_path" /\ pc = "ready") =>
        LET records == byte_reader(unwrap(file))
        IN  /\ records # <<>>
            /\ Registro1Modelo720_from_bytes(records[1]).ok
            /\ \A k \in 2..Len(records) : Registro2Modelo720_from_bytes(records[k]).ok
            /\ Len(ReadDeclaration.entries) = Len(records) - 1

\* C15: for every date d of the calendar the field written for Some(d) is
\* read back as Some(d); no date is written as 00000000 in the field and is
\* read back as no date.
C15_DateRoundTrip ==
    /\ (is_some(output) /\ unwrap(input) = None) => unwrap(output) = repeat("0", 8)
    /\ is_some(decoded) => decoded = Some(Ok(unwrap(input)))

\* 29 February 2024 is written 20240229 and read back
C15_Witness ==
    /\ input = Some(Some(NaiveDate(2024, 2, 29)))
    /\ output = Some(<<"2", "0", "2", "4", "0", "2", "2", "9">>)
    /\ decoded = Some(Ok(Some(NaiveDate(2024, 2, 29))))

\* the ranges of the fields are half-open, the first starts at 0, each
\* starts where the one before ends, and the last ends at 500
Contiguous(fields) ==
    /\ fields[1].lo = 0
    /\ \A i \in 1..Len(fields) : fields[i].lo < fields[i].hi
    /\ \A i \in 1..(Len(fields) - 1) : fields[i + 1].lo = fields[i].hi
    /\ fields[Len(fields)].hi = RecordWidth

\* every Modelo720Number field of the record has the parameter W, and W is
\* the width of its range
NumbersOfWidth(fields, W) ==
    \A i \in 1..Len(fields) :
        fields[i].type = "Modelo720Number" =>
            /\ fields[i].N = W
            /\ fields[i].hi - fields[i].lo = W

\* C16: in the header and in the detail the ranges of the fields, in the
\* order of declaration, tile 0..500 without gap or overlap; the parameter
\* of every Modelo720Number field is the width of its range, 18 for the
\* totals of the header and 15 for the valuations of the detail; so every
\* line written is 500 bytes long.
C16_Layout ==
    /\ Contiguous(Registro1Modelo720_fields)
    /\ Contiguous(Registro2Modelo720_fields)
    /\ NumbersOfWidth(Registro1Modelo720_fields, 18)
    /\ NumbersOfWidth(Registro2Modelo720_fields, 15)
    /\ \E i \in 1..Len(Registro1Modelo720_fields) :
          Registro1Modelo720_fields[i].type = "Modelo720Number"
    /\ \E i \in 1..Len(Registro2Modelo720_fields) :
          Registro2Modelo720_fields[i].type = "Modelo720Number"
    /\ is_some(declaration) =>
          /\ Len(Registro1Modelo720_serialize(unwrap(declaration).header)) = RecordWidth
          /\ \A k \in 1..Len(unwrap(declaration).entries) :
                Len(Registro2Modelo720_serialize(unwrap(declaration).entries[k]))
                    = RecordWidth

\* the file of a declaration of one detail worth 100.00: the total fills
\* bytes 144..162 of the header line and the valuation bytes 431..446 of the
\* detail line
C16_Witness ==
    /\ op = "save_to_file"
    /\ unwrap(declaration).entries = <<AcquiredDetail>>
    /\ SubSeq(unwrap(file), 144 + 1, 162) = <<" ">> \o repeat("0", 12) \o <<"1", "0", "0", "0", "0">>
    /\ SubSeq(unwrap(file), RecordWidth + 1 + 431 + 1, RecordWidth + 1 + 446)
          = <<" ">> \o repeat("0", 9) \o <<"1", "0", "0", "0", "0">>

\* the types of the optional fields that are no dates
OptionalTypes ==
    {"Option<char>", "Option<String>", "Option<i8>", "Option<i64>", "Option<Shares>"}

\* in the line written for the record, every optional field that is absent
\* is spaces over the width of its range
AbsentAsSpaces(fields, record, line) ==
    \A i \in 1..Len(fields) :
        (fields[i].type \in OptionalTypes /\ record[fields[i].name] = None) =>
            SubSeq(line, fields[i].lo + 1, fields[i].hi)
                = repeat(" ", fields[i].hi - fields[i].lo)

\* C17: in a file written for a declaration, every optional field other than
\* the two dates is spaces over its whole width when it is absent, the
\* optional numbers too (subclave_tipo_bien, clave_identificacion,
\* numero_valores, id_declaracion_anterior).
C17_AbsentAsSpaces ==
    op = "save_to_file" =>
        LET bytes == unwrap(file)
            self == unwrap(declaration)
            start(k) == (RecordWidth + 1) * k
            line(k) == SubSeq(bytes, start(k) + 1, start(k) + RecordWidth)
        IN  /\ AbsentAsSpaces(Registro1Modelo720_fields, self.header, line(0))
            /\ \A k \in 1..Len(self.entries) :
                  AbsentAsSpaces(Registro2Modelo720_fields, self.entries[k], line(k))

\* the same for the optional fields that are not padded with zeros
C17_TextAbsentAsSpaces ==
    op = "save_to_file" =>
        LET bytes == unwrap(file)
            self == unwrap(declaration)
            start(k) == (RecordWidth + 1) * k
            line(k) == SubSeq(bytes, start(k) + 1, start(k) + RecordWidth)
            text(fields) == SelectSeq(fields, LAMBDA f : f.pad_with = " ")
        IN  /\ AbsentAsSpaces(text(Registro1Modelo720_fields), self.header, line(0))
            /\ \A k \in 1..Len(self.entries) :
                  AbsentAsSpaces(text(Registro2Modelo720_fields), self.entries[k], line(k))

\* the text handed to the visitor, and what follows the place of its sign
VisitedText == unwrap(input).v

AfterSign ==
    IF Len(VisitedText) = unwrap(input).N THEN Tail(VisitedText) ELSE VisitedText

\* C18: the visitor of Modelo720Number fails whenever a character after the
\* place of the sign is not a decimal digit (a decimal point, a minus sign,
\* a letter, a space): it succeeds on digits only.
C18_DigitsOnly ==
    (is_some(output) /\ unwrap(output).ok) =>
        \A i \in 1..Len(AfterSign) : is_ascii_digit(AfterSign[i])

\* a text of digits after the place of the sign is read without failure
C18_DigitsAreRead ==
    (is_some(output) /\ AfterSign # <<>>
        /\ \A i \in 1..Len(AfterSign) : is_ascii_digit(AfterSign[i]))
    => unwrap(output).ok

\* C19: encoding an amount in a width W fails exactly when its cents need
\* more than W - 1 digits: a text is returned only for an amount that fits,
\* and it is never longer than W; an amount that fits is always encoded.
C19_TooWideFails ==
    is_some(output) =>
        /\ FitsWidth
        /\ Len(unwrap(output)) = EncodedWidth

\* C20: the price per share of an asset of zero shares ends in a division
\* by zero; the reconciliation fails at every Changed pair whose current
\* asset has zero shares, whatever the previous share count (zero too): no
\* record is pushed for the pair and no declaration is returned.
C20_ZeroSharesFail ==
    \A k \in 1..Len(yielded) :
        (InnerAt(k) /\ NoShares(k)) =>
            /\ price_per_share(NewAt(k)) = None
            /\ k = Len(yielded)
            /\ emitted[k] = 0
            /\ pc = "panicked"
            /\ modelo720 = None

\* a pair whose current asset has no shares and whose previous asset had
\* some, and a pair of no shares on both sides, each ends the reconciliation
C20_Witness ==
    /\ pc = "panicked"
    /\ InnerAt(Len(yielded))
    /\ NoShares(Len(yielded))
    /\ shares(OldAt(Len(yielded))).m # 0

C20_WitnessBothZero ==
    /\ pc = "panicked"
    /\ InnerAt(Len(yielded))
    /\ NoShares(Len(yielded))
    /\ shares(OldAt(Len(yielded))).m = 0

\* the number of times x stands in the list
Count(list, x) == Cardinality({i \in 1..Len(list) : list[i] = x})

\* one list is the other in another order
Permutation(p, q) ==
    /\ Len(p) = Len(q)
    /\ \A i \in 1..Len(p) : Count(p, p[i]) = Count(q, p[i])

\* identifiers do not decrease along the list
SortedByIsin(assets) ==
    \A i \in 1..(Len(assets) - 1) : assets[i].isin <= assets[i + 1].isin

\* C21: from_assets returns its input in another order, sorted by
\* non-decreasing identifier; merge(p, q) returns the assets of p and of q
\* together, |p| + |q| of them, none dropped and equal identifiers kept side
\* by side, sorted by non-decreasing identifier.
C21_PortfolioSortedPermutation ==
    /\ is_some(output) =>
          \A n \in 1..2 :
              /\ Permutation(unwrap(output)[n], unwrap(input)[n])
              /\ SortedByIsin(unwrap(output)[n])
    /\ is_some(decoded) =>
          /\ Len(unwrap(decoded)) = Len(unwrap(output)[1]) + Len(unwrap(output)[2])
          /\ Permutation(unwrap(decoded), unwrap(output)[1] \o unwrap(output)[2])
          /\ SortedByIsin(unwrap(decoded))

\* two portfolios that both hold identifier 1, with different valuations,
\* and one of them identifier 2 listed first: the merged portfolio holds
\* both assets of identifier 1 and then the one of identifier 2
C21_Witness ==
    /\ input = Some(<<
            <<Etf(2, Decimal_new(100, 0), Decimal_new(10, 0)),
              Etf(1, Decimal_new(100, 0), Decimal_new(10, 0))>>,
            <<Etf(1, Decimal_new(110, 0), Decimal_new(10, 0))>> >>)
    /\ decoded = Some(<<Etf(1, Decimal_new(100, 0), Decimal_new(10, 0)),
                        Etf(1, Decimal_new(110, 0), Decimal_new(10, 0)),
                        Etf(2, Decimal_new(100, 0), Decimal_new(10, 0))>>)

\* the assets of a list that carry the identifier
Holding(assets, isin) == {assets[i] : i \in {j \in 1..Len(assets) : assets[j].isin = isin}}

\* the k-th join result is classified as the claim says
C22_Classified(k) ==
    LET result == yielded[k]
        change == to_PortfolioChange(result)
        isin == JoinId(result)
    IN  /\ (isin \in Ids(current) /\ isin \notin Ids(previous)) =>
              /\ result.tag = "OuterLeft"
              /\ change.tag = "NewAcquisition"
              /\ Holding(current, isin) = {unwrap(change.new)}
        /\ (isin \in Ids(current) /\ isin \in Ids(previous)) =>
              /\ result.tag = "Inner"
              /\ change.tag = "Changed"
              /\ Holding(current, isin) = {unwrap(change.new)}
              /\ Holding(previous, isin) = {unwrap(change.old)}
        /\ (isin \notin Ids(current) /\ isin \in Ids(previous)) =>
              /\ result.tag = "OuterRight"
              /\ change.tag = "Sold"
              /\ Holding(previous, isin) = {unwrap(change.old)}

\* C22: for sorted, duplicate-free current and previous, an identifier of
\* current alone is classified NewAcquisition (OuterLeft), an identifier of
\* both is classified Changed with the current asset first and the previous
\* asset second (Inner), and an identifier of previous alone is classified
\* Sold (OuterRight); an identifier of both is never NewAcquisition or Sold.
C22_Classification ==
    (StrictlySorted(current) /\ StrictlySorted(previous)) =>
        \A k \in 1..Len(yielded) :
            /\ JoinId(yielded[k]) \in Ids(current) \union Ids(previous)
            /\ C22_Classified(k)

\* identifier 1 held before at 100/10 and now at 110/10, identifier 2 held
\* before only: Changed(110/10, 100/10), then Sold
C22_Witness ==
    /\ pc = "done"
    /\ Len(yielded) = 2
    /\ to_PortfolioChange(yielded[1]) =
          Changed(Etf(1, Decimal_new(110, 0), Decimal_new(10, 0)),
                  Etf(1, Decimal_new(100, 0), Decimal_new(10, 0)))
    /\ to_PortfolioChange(yielded[2]).tag = "Sold"
    /\ JoinId(yielded[2]) = 2

\* identifier 1 held now only, identifier 2 on both sides: NewAcquisition,
\* then Changed
C22_WitnessNew ==
    /\ pc = "done"
    /\ Len(yielded) = 2
    /\ to_PortfolioChange(yielded[1]).tag = "NewAcquisition"
    /\ to_PortfolioChange(yielded[2]).tag = "Changed"

\* the identifier a detail record is about
IsinOf(registro) ==
    CHOOSE i \in 1..Len(IsinLetters) : Some(IsinText(i)) = registro.identificacion_valores

\* C23: in the detail list of a reconciliation of sorted, duplicate-free
\* portfolios the records of a smaller identifier all precede those of a
\* larger one, and the two records of one identifier are neighbours, the
\* Maintained record first and the Acquired or Ceased record second.
C23_DetailOrder ==
    \A i, j \in 1..Len(entries) :
        i < j =>
            /\ IsinOf(entries[i]) <= IsinOf(entries[j])
            /\ IsinOf(entries[i]) = IsinOf(entries[j]) =>
                  /\ j = i + 1
                  /\ entries[i].origen_bien_derecho = Some("M")
                  /\ entries[j].origen_bien_derecho \in {Some("A"), Some("C")}

\* identifier 1 shrank and identifier 2 is new: Maintained and Ceased of 1,
\* then Acquired of 2
C23_Witness ==
    /\ pc = "done"
    /\ Len(entries) = 3
    /\ IsinOf(entries[1]) = 1 /\ entries[1].origen_bien_derecho = Some("M")
    /\ IsinOf(entries[2]) = 1 /\ entries[2].origen_bien_derecho = Some("C")
    /\ IsinOf(entries[3]) = 2 /\ entries[3].origen_bien_derecho = Some("A")

\* the elements of a side the iterator has not reported yet: the head it
\* holds and what its cursor still has to give
LeftRemaining(it) == Len(it.left) + (IF is_some(it.last_left) THEN 1 ELSE 0)

RightRemaining(it) == Len(it.right) + (IF is_some(it.last_right) THEN 1 ELSE 0)

\* a step that yields a result advances the cursor of each side the result
\* reports by one element, and no other
C24_StepAdvancesReportedSides ==
    Len(yielded') = Len(yielded) + 1 =>
        LET result == yielded'[Len(yielded')]
        IN  /\ LeftRemaining(iterator') = LeftRemaining(iterator)
                  - (IF result.tag \in {"OuterLeft", "Inner"} THEN 1 ELSE 0)
            /\ RightRemaining(iterator') = RightRemaining(iterator)
                  - (IF result.tag \in {"OuterRight", "Inner"} THEN 1 ELSE 0)

\* once next has returned None both cursors are exhausted, between
\* max(m, n) and m + n results have been yielded, and the calls
\* made after that have all returned None
C24_ExhaustedForGood ==
    pc = "exhausted" =>
        /\ LeftRemaining(iterator) = 0
        /\ RightRemaining(iterator) = 0
        /\ Len(yielded) >= Max(Len(current), Len(previous))
        /\ Len(yielded) <= Len(current) + Len(previous)
        /\ \A i \in 1..Len(output) : output[i] = None

\* C24: the join of any two lists terminates: every step that yields a
\* result advances at least one cursor and only that of a side it reports,
\* so for lists of m and n assets next returns None after between max(m, n)
\* and m + n results, with both cursors exhausted, and on every later call.
C24_JoinTerminates ==
    /\ [][C24_StepAdvancesReportedSides]_vars
    /\ []C24_ExhaustedForGood
    /\ <>(pc = "exhausted" /\ Len(output) = MaxCalls)

\* lists of two and of two assets joined in three results: a pair between
\* an asset of the left alone and one of the right alone
C24_Witness ==
    /\ pc = "exhausted"
    /\ Len(output) = MaxCalls
    /\ Len(current) = 2
    /\ Len(previous) = 2
    /\ Len(yielded) = 3
    /\ yielded[1].tag = "OuterLeft"
    /\ yielded[2].tag = "Inner"
    /\ yielded[3].tag = "OuterRight"

\* the code of each variant of Modelo720Titularidad
CodeOf(variant) ==
    CASE variant = "Titular" -> "1"
      [] variant = "Representate" -> "2"
      [] variant = "Autorizado" -> "3"
      [] variant = "Beneficiario" -> "4"
      [] variant = "Usufructuario" -> "5"
      [] variant = "Tomador" -> "6"
      [] variant = "ConPoderDisposicion" -> "7"
      [] variant = "Otros" -> "8"

\* a written ownership type is the code of its variant, followed for Otros
\* by the label in upper case
C25_Encoded ==
    is_some(input) /\ is_some(output) =>
        LET t == unwrap(input)
        IN  unwrap(output) = IF t.variant = "Otros"
                             THEN <<"8">> \o to_uppercase(t.what)
                             ELSE <<CodeOf(t.variant)>>

\* a text that starts with a code is read as the variant of the code, with
\* the rest of the text as the label of Otros
C25_Decoded ==
    is_some(decoded) /\ unwrap(output) # <<>> =>
        LET v == unwrap(output)
            result == unwrap(decoded)
        IN  /\ v[1] = "8" => result = Ok(Otros(Tail(v)))
            /\ \A i \in 1..7 :
                  v[1] = CodeOf(Titularidades[i]) => result = Ok(Titularidad(Titularidades[i]))

\* a text that does not start with a code, the empty text included, is
\* refused with an error
C25_Refused ==
    is_some(decoded) =>
        LET v == unwrap(output)
        IN  (v = <<>> \/ v[1] \notin {CodeOf(Titularidades[i]) : i \in 1..8})
                => unwrap(decoded) = Err

\* C25: the seven fixed ownership types are written as the digits 1 to 7 in
\* the order of the variants and Otros as 8 followed by its label in upper
\* case; a field that starts with 1 to 7 is read as the matching variant, one
\* that starts with 8 as Otros with the rest as label, and any other field,
\* an empty one included, is refused with an error: no value, no panic.
C25_OwnershipCodec ==
    /\ C25_Encoded
    /\ C25_Decoded
    /\ C25_Refused

\* what holds of the visitor: a text whose first character is one byte
\* long and is not a code is refused with an error
C25_OneByteRefused ==
    is_some(decoded) =>
        LET v == unwrap(output)
        IN  (v # <<>> /\ len_utf8(v[1]) = 1
                /\ v[1] \notin {CodeOf(Titularidades[i]) : i \in 1..8})
                => unwrap(decoded) = Err

C25_CodecOfOneByteTexts ==
    /\ C25_Encoded
    /\ C25_Decoded
    /\ C25_OneByteRefused

\* the elements of a side that the results report, in the order of the
\* results: a result holds one element of a side or none
RECURSIVE Reported(_, _)
Reported(results, side) ==
    IF results = <<>> THEN <<>>
    ELSE (IF side = "left" THEN Head(results).left ELSE Head(results).right)
             \o Reported(Tail(results), side)

IsPrefix(s, t) == Len(s) <= Len(t) /\ s = SubSeq(t, 1, Len(s))

\* C26: for any two lists, unsorted or with repeated identifiers too, the
\* elements of current are reported one by one in their input order, each
\* once, as the OuterLeft or the first of an Inner, and those of previous
\* likewise as the OuterRight or the second of an Inner; when next returns
\* None every element of both lists has been reported.
C26_ExactlyOnce ==
    /\ \A k \in 1..Len(yielded) :
          /\ is_some(yielded[k].left) <=> yielded[k].tag \in {"OuterLeft", "Inner"}
          /\ is_some(yielded[k].right) <=> yielded[k].tag \in {"OuterRight", "Inner"}
    /\ IsPrefix(Reported(yielded, "left"), current)
    /\ IsPrefix(Reported(yielded, "right"), previous)
    /\ pc = "exhausted" =>
          /\ Reported(yielded, "left") = current
          /\ Reported(yielded, "right") = previous

\* lists out of order that hold one identifier twice, with two valuations,
\* joined to the end
C26_Witness ==
    /\ pc = "exhausted"
    /\ Len(current) = 2
    /\ current[1].isin = current[2].isin
    /\ current[1] # current[2]
    /\ Len(previous) = 2
    /\ previous[1].isin > previous[2].isin

\* the asset of a duplicate-free list that has the identifier
Held(assets, isin) == CHOOSE a \in Holding(assets, isin) : TRUE

\* the identifiers held in both portfolios with two different share counts
ChangedShares ==
    {isin \in Ids(current) \cap Ids(previous) :
        Decimal_cmp(shares(Held(current, isin)), shares(Held(previous, isin))) # 0}

\* the first valuations of the records, in cents, an unset one taken as zero
Valuations1(registros) ==
    [i \in 1..Len(registros) |->
        IF is_some(registros[i].valoracion1) THEN unwrap(registros[i].valoracion1) ELSE 0]

\* C27: for sorted, duplicate-free portfolios whose common assets all have
\* current shares other than zero, the declaration compute_modelo720 returns
\* has one detail for each identifier of current or previous and one more for
\* each identifier held in both with two different share counts; the header
\* counts exactly these details, and its first total is the sum of their
\* first valuations, an unset valuation counting as zero.
C27_DeclarationSize ==
    (/\ pc = "done"
     /\ StrictlySorted(current) /\ StrictlySorted(previous)
     /\ \A isin \in Ids(current) \cap Ids(previous) :
           Decimal_cmp(shares(Held(current, isin)), Decimal_new(0, 0)) # 0)
    => LET declared == unwrap(modelo720)
           details == Cardinality(Ids(current) \cup Ids(previous))
                          + Cardinality(ChangedShares)
       IN  /\ Len(declared.entries) = details
           /\ declared.header.numero_registros_tipo2 = details
           /\ declared.header.suma_valoracion1 = SumSeq(Valuations1(declared.entries))

\* a declaration of three details for two identifiers, one of them held in
\* both portfolios with two share counts, with a detail of no first
\* valuation and a first total that is not zero
C27_Witness ==
    /\ pc = "done"
    /\ Cardinality(Ids(current) \cup Ids(previous)) = 2
    /\ Cardinality(ChangedShares) = 1
    /\ Len(unwrap(modelo720).entries) = 3
    /\ \E i \in 1..3 : ~is_some(unwrap(modelo720).entries[i].valoracion1)
    /\ unwrap(modelo720).header.suma_valoracion1 > 0

\* the header of a declaration agrees with its details: it counts them, and
\* each total is the sum of the column's values rounded to cents
HeaderAgrees(d) ==
    /\ d.header.numero_registros_tipo2 = Len(d.entries)
    /\ IsCents(d.header.suma_valoracion1, SumSeq(CentsOfColumn1(d.entries)))
    /\ IsCents(d.header.suma_valoracion2, SumSeq(CentsOfColumn2(d.entries)))

\* C28: a declaration Modelo720::new has built agrees with its details, and
\* concat keeps that: when the headers of a and of b agree with their
\* details, as those of built declarations and of their concatenations do,
\* after a.concat(b) the header count is the length of the detail list and
\* each header total the sum of the column rounded to cents, which is the
\* header Modelo720::new computes from the joined details.
C28_ConcatKeepsAgreement ==
    [][/\ (op' = "new" /\ is_some(other')) => HeaderAgrees(unwrap(other'))
       /\ (op' = "concat" /\ HeaderAgrees(unwrap(declaration))
                          /\ HeaderAgrees(unwrap(other))) =>
            LET result == unwrap(declaration')
                built == Build(result.entries)
            IN  /\ HeaderAgrees(result)
                /\ result.header.numero_registros_tipo2
                      = built.header.numero_registros_tipo2
                /\ Decimal_eq(result.header.suma_valoracion1,
                              built.header.suma_valoracion1)
                /\ Decimal_eq(result.header.suma_valoracion2,
                              built.header.suma_valoracion2)
    ]_vars

\* two built declarations joined: two details and one, with values of
\* three decimal places in both columns, under a header that agrees
C28_Witness ==
    /\ op = "concat"
    /\ LET result == unwrap(declaration)
       IN  /\ Len(result.entries) = 3
           /\ result.entries[1] = AcquiredDetail
           /\ result.entries[2] = CeasedDetail
           /\ result.entries[3] \in OtherDetails
           /\ result.entries[3].valoracion2 = CeasedDetail.valoracion2
           /\ HeaderAgrees(result)
           /\ ~IsCents(result.header.suma_valoracion2, 0)

\* the fields of the header that concat adds up
AddedFields == {"numero_registros_tipo2", "suma_valoracion1", "suma_valoracion2"}

\* C29: concat changes the header count, the two header totals and the
\* detail list of the left declaration and nothing else: every other header
\* field keeps the value of the left declaration, whatever the right header
\* holds in it (the call does not fail when the two differ), and the details
\* of the left and of the right are in the result as they were.
C29_ConcatFrame ==
    [][(is_some(other) /\ other' = None) =>
        LET a == unwrap(declaration)
            b == unwrap(other)
            result == unwrap(declaration')
        IN  /\ pc' = "ready"
            /\ DOMAIN result.header = DOMAIN a.header
            /\ \A name \in DOMAIN a.header \ AddedFields :
                  result.header[name] = a.header[name]
            /\ Len(result.entries) = Len(a.entries) + Len(b.entries)
            /\ \A i \in 1..Len(a.entries) : result.entries[i] = a.entries[i]
            /\ \A i \in 1..Len(b.entries) :
                  result.entries[Len(a.entries) + i] = b.entries[i]
    ]_vars

\* the declaration of one declarant joined with that of another, of
\* another year: the header is still the first declarant's, over a detail of
\* the second
C29_Witness ==
    /\ op = "concat"
    /\ pc = "ready"
    /\ LET result == unwrap(declaration)
       IN  /\ result.header.ejercicio = Declarant.ejercicio
           /\ result.header.nif_declarante = Declarant.nif
           /\ result.header.nombre = Declarant.name
           /\ Len(result.entries) = 2
           /\ result.entries[1].nif_declarante = Declarant.nif
           /\ result.entries[2].nif_declarante = OtherDeclarant.nif
           /\ result.entries[2].ejercicio = OtherDeclarant.ejercicio

\* the Maintained records among those the k-th join result put into entries
MaintainedOf(k) ==
    {r \in {RecordsOf(k)[i] : i \in 1..Len(RecordsOf(k))} :
        r.origen_bien_derecho = Some("M")}

C30_WitnessGrew ==
    /\ pc = "done"
    /\ \E k \in 1..Len(emitted) :
          /\ Grew(k) /\ ~NoShares(k)
          /\ \E r \in MaintainedOf(k) : is_some(r.numero_valores)

=============================================================================
